---- MODULE Spec2Model ----
(***************************************************************************)
(* InterSplit: the replicated expense ledger (class ExpenseSplit) of the   *)
(* intercom peer, with the sidechannel that carries its broadcasts and the *)
(* contract store that keeps its snapshots.                                *)
(*                                                                         *)
(* Every peer runs one ExpenseSplit engine; rooms[p] is that engine's      *)
(* this.rooms Map.  Strings are modelled by a finite alphabet of literals  *)
(* on which trim() and toLowerCase() are given by tables; an optional      *)
(* value (undefined, NaN, null) is a sequence of length 0, a present one a *)
(* sequence of length 1.                                                   *)
(***************************************************************************)
EXTENDS Integers, Sequences, FiniteSets, TLC

VARIABLES
    rooms,      \* rooms[p]: ExpenseSplit.rooms of peer p, key -> [events, txSeen]
    net,        \* sidechannel broadcasts accepted by the transport so far
    store,      \* contract state: persisted snapshots by key
    now,        \* the value Date.now() returns
    issued,     \* number of txIds createTxId has produced
    ret,        \* what the latest call returned
    bridge,     \* the ScBridge of peer p1: configuration, clients, last reply
    delivered,  \* which broadcast the transport has handed to which peer
    ui          \* the page of the UI: its state object, sockets and timers

vars == <<rooms, net, store, now, issued, ret, bridge, delivered, ui>>

----------------------------------------------------------------------------
(* Bounds of the model *)

MaxClock == 2       \* Date.now() ranges over 1..MaxClock
MaxIssued == 2      \* createTxId is called at most this many times
MaxEvents == 3      \* a room is driven up to this many events
MaxNet == 1         \* broadcasts kept in flight
MaxSent == 2        \* broadcasts kept in flight while deliveries are followed
MaxCli == 1         \* CLI commands waiting in the bridge's queue
MaxQueued == 2      \* CLI commands waiting while their runs are followed
MaxSockets == 2     \* WebSockets the page opens
MaxRequests == 2    \* calls of request() the page makes
MaxSplit == 4       \* a split list is pushed to up to this length
MaxTurns == 8       \* turns of the settlement loop that are followed

----------------------------------------------------------------------------
(* Text *)

APP_KEY == "expense_split_v1"

DefaultChannel == "0000intercom"

\* String.prototype.trim on the literals of the model
Trim(s) ==
    CASE s = " "     -> ""
      [] s = " t1"   -> "t1"
      [] s = " a"    -> "a"
      [] s = "B "    -> "B"
      [] s = " trip" -> "trip"
      [] OTHER       -> s

\* String.prototype.toLowerCase on the literals of the model
ToLowerCase(s) ==
    CASE s = "B"    -> "b"
      [] s = "B "   -> "b "
      [] s = "Trip" -> "trip"
      [] OTHER      -> s

normalizeText(value) == Trim(value)

\* a member name that is trimmed and keeps its letter case
normalizeMemberCased(value) == normalizeText(value)

normalizeMember(value) == ToLowerCase(normalizeText(value))

\* String.prototype.localeCompare restricted to the member names of the model:
\* the position of a name in the collation order
Collation == <<"a", "b", "c", "d", "e">>

Range(seq) == {seq[i] : i \in DOMAIN seq}

RECURSIVE parseMembersFrom(_, _, _)
parseMembersFrom(values, i, members) ==
    IF i > Len(values) THEN members
    ELSE LET member == normalizeMember(values[i])
         IN  IF member = "" \/ member \in Range(members)
             THEN parseMembersFrom(values, i + 1, members)
             ELSE parseMembersFrom(values, i + 1, Append(members, member))

\* value: the array (or the pieces of the comma-separated string) given
parseMembers(value) == parseMembersFrom(value, 1, <<>>)

\* decimal input in thousandths of a unit: Math.round(numeric * 100)
RoundToCents(milli) == (milli + 5) \div 10

\* amount: <<>> for null/undefined/''/non-numeric, <<m>> for m thousandths
parseAmountToCents(amount) ==
    IF amount = <<>> THEN <<>>
    ELSE IF amount[1] <= 0 THEN <<>>
    ELSE <<RoundToCents(amount[1])>>

----------------------------------------------------------------------------
(* Rooms *)

resolveChannel(channel) ==
    LET target == normalizeText(channel)
    IN  IF target = "" THEN DefaultChannel ELSE target

NewRoom == [events |-> <<>>, txSeen |-> {}]

\* the Map after getRoom(channel): the room is created when missing
getRoom(map, channel) ==
    LET key == resolveChannel(channel)
    IN  IF key \in DOMAIN map THEN map
        ELSE [k \in DOMAIN map \cup {key} |-> IF k = key THEN NewRoom ELSE map[k]]

\* a delete that empties the event list and keeps the dedup index
deleteRoomKeepSeen(map, key) ==
    [k \in DOMAIN map |-> IF k = key THEN [map[k] EXCEPT !.events = <<>>] ELSE map[k]]

\* Map.prototype.delete
deleteRoom(map, key) == [k \in DOMAIN map \ {key} |-> map[k]]

\* Number.parseInt(value, 10): a number is written <<whole>> or, with a
\* fraction digit, <<whole, digit>>; <<>> is a value that parses to NaN.
\* The digits before the point are kept, the fraction is dropped.
parseInt(value) == IF value = <<>> THEN <<>> ELSE <<value[1]>>

\* an event as received: object is FALSE for a payload that is no object
validEvent(event) ==
    /\ event.object
    /\ normalizeText(event.txId) # ""
    /\ normalizeMember(event.payer) # ""
    /\ parseInt(event.amountCents) # <<>>
    /\ parseInt(event.amountCents)[1] > 0
    /\ Len(parseMembers(event.split)) # 0

normalizeEvent(event, clock) ==
    [txId        |-> normalizeText(event.txId),
     payer       |-> normalizeMember(event.payer),
     amountCents |-> parseInt(event.amountCents)[1],
     split       |-> parseMembers(event.split),
     note        |-> normalizeText(event.note),
     ts          |-> IF event.ts # <<>> THEN event.ts[1] ELSE clock,
     by          |-> event.by]

\* the raw form of a stored event (what a broadcast or a snapshot carries)
rawOf(e) ==
    [object |-> TRUE, txId |-> e.txId, payer |-> e.payer,
     amountCents |-> <<e.amountCents>>, split |-> e.split, note |-> e.note,
     ts |-> <<e.ts>>, by |-> e.by]

\* a push that forgets to index the txId
pushEventUnindexed(room, normalized) ==
    [events |-> Append(room.events, normalized), txSeen |-> room.txSeen]

\* room.txSeen.add(txId); room.events.push(normalized)
pushEvent(room, normalized) ==
    [events |-> Append(room.events, normalized),
     txSeen |-> room.txSeen \cup {normalized.txId}]

\* a merge that does not look the txId up
storeEventUnchecked(created, key, normalized) ==
    [rooms |-> [created EXCEPT ![key] =
                   [events |-> Append(@.events, normalized),
                    txSeen |-> @.txSeen \cup {normalized.txId}]],
     ok |-> TRUE, duplicate |-> FALSE, event |-> <<normalized>>]

\* a merge in which the event that comes last takes the place of the stored
\* event with its txId
storeEventLastWins(created, key, normalized) ==
    IF normalized.txId \in created[key].txSeen
    THEN [rooms |-> [created EXCEPT ![key].events =
                        [k \in DOMAIN @ |-> IF @[k].txId = normalized.txId
                                            THEN normalized ELSE @[k]]],
          ok |-> TRUE, duplicate |-> TRUE, event |-> <<normalized>>]
    ELSE [rooms |-> [created EXCEPT ![key] = pushEvent(@, normalized)],
          ok |-> TRUE, duplicate |-> FALSE, event |-> <<normalized>>]

\* a merge that looks the txId up in the index of every room
storeEventSeenAnywhere(created, key, normalized) ==
    IF \E k \in DOMAIN created : normalized.txId \in created[k].txSeen
    THEN [rooms |-> created, ok |-> TRUE, duplicate |-> TRUE, event |-> <<normalized>>]
    ELSE [rooms |-> [created EXCEPT ![key] = pushEvent(@, normalized)],
          ok |-> TRUE, duplicate |-> FALSE, event |-> <<normalized>>]

\* the part of addEvent after getRoom: `created` is the Map with the room
storeEvent(created, key, normalized) ==
    IF normalized.txId \in created[key].txSeen
    THEN [rooms |-> created, ok |-> TRUE, duplicate |-> TRUE, event |-> <<normalized>>]
    ELSE [rooms |-> [created EXCEPT ![key] = pushEvent(@, normalized)],
          ok |-> TRUE, duplicate |-> FALSE, event |-> <<normalized>>]

\* addEvent(channel, event) on the Map `map`: the Map afterwards and the result
addEvent(map, channel, event, clock) ==
    IF ~validEvent(event)
    THEN [rooms |-> map, ok |-> FALSE, duplicate |-> FALSE, event |-> <<>>]
    ELSE storeEvent(getRoom(map, channel), resolveChannel(channel),
                    normalizeEvent(event, clock))

----------------------------------------------------------------------------
(* Queries *)

\* a sort step that puts an event before the events of the same ts
RECURSIVE insertByTsBeforeTies(_, _)
insertByTsBeforeTies(sorted, e) ==
    IF sorted = <<>> THEN <<e>>
    ELSE IF sorted[Len(sorted)].ts < e.ts THEN Append(sorted, e)
    ELSE Append(insertByTsBeforeTies(SubSeq(sorted, 1, Len(sorted) - 1), e),
                sorted[Len(sorted)])

\* Array.prototype.sort((a, b) => a.ts - b.ts): stable
RECURSIVE insertByTs(_, _)
insertByTs(sorted, e) ==
    IF sorted = <<>> THEN <<e>>
    ELSE IF sorted[Len(sorted)].ts <= e.ts THEN Append(sorted, e)
    ELSE Append(insertByTs(SubSeq(sorted, 1, Len(sorted) - 1), e), sorted[Len(sorted)])

RECURSIVE sortByTsFrom(_, _, _)
sortByTsFrom(events, i, sorted) ==
    IF i > Len(events) THEN sorted
    ELSE sortByTsFrom(events, i + 1, insertByTs(sorted, events[i]))

sortByTs(events) == sortByTsFrom(events, 1, <<>>)

\* a lookup that creates the room when it is missing, as getRoom does
lookupCreating(map, channel) == getRoom(map, channel)

\* this.rooms.get(target), the only access of list() to the Map: the Map
\* afterwards, whether the room is there or not
lookup(map, channel) == map

list(map, channel) ==
    LET target == resolveChannel(channel)
    IN  IF target \notin DOMAIN map THEN <<>> ELSE sortByTs(map[target].events)

\* map.get(member) || 0
mapGet(map, member) == IF member \in DOMAIN map THEN map[member] ELSE 0

\* map.set(member, cents)
mapSet(map, member, cents) ==
    [m \in DOMAIN map \cup {member} |-> IF m = member THEN cents ELSE map[m]]

baseShare(event) == event.amountCents \div Len(event.split)

remainder(event) == event.amountCents - baseShare(event) * Len(event.split)

\* a share that drops the remainder
shareFloor(event, idx) == baseShare(event)

\* a share that gives the extra cents to the last members of the split
shareLast(event, idx) ==
    baseShare(event) + (IF idx >= Len(event.split) - remainder(event) THEN 1 ELSE 0)

\* the share of the member at position idx (0-based) of event.split
share(event, idx) == baseShare(event) + (IF idx < remainder(event) THEN 1 ELSE 0)

\* members.forEach((member, idx) => map.set(member, prev - share))
RECURSIVE chargeMembers(_, _, _)
chargeMembers(map, event, idx) ==
    IF idx >= Len(event.split) THEN map
    ELSE LET member == event.split[idx + 1]
         IN  chargeMembers(mapSet(map, member, mapGet(map, member) - share(event, idx)),
                           event, idx + 1)

\* map.set(event.payer, payerPrev + event.amountCents)
creditPayer(map, event) ==
    mapSet(map, event.payer, mapGet(map, event.payer) + event.amountCents)

RECURSIVE balanceMapFrom(_, _, _)
balanceMapFrom(events, i, map) ==
    IF i > Len(events) THEN map
    ELSE IF Len(events[i].split) = 0 THEN balanceMapFrom(events, i + 1, map)
    ELSE balanceMapFrom(events, i + 1,
                        creditPayer(chargeMembers(map, events[i], 0), events[i]))

EmptyMap == [m \in {} |-> 0]

\* Array.from(map.entries()).map(...).sort(localeCompare)
entriesByMember(map) ==
    LET present == SelectSeq(Collation, LAMBDA m : m \in DOMAIN map)
    IN  [k \in 1..Len(present) |-> [member |-> present[k], cents |-> map[present[k]]]]

\* balances() over a list of events as list() returns it
balancesOf(events) == entriesByMember(balanceMapFrom(events, 1, EmptyMap))

balances(map, channel) == balancesOf(list(map, channel))

\* Array.prototype.sort((a, b) => b.cents - a.cents): stable
RECURSIVE insertByCentsDesc(_, _)
insertByCentsDesc(sorted, e) ==
    IF sorted = <<>> THEN <<e>>
    ELSE IF sorted[Len(sorted)].cents >= e.cents THEN Append(sorted, e)
    ELSE Append(insertByCentsDesc(SubSeq(sorted, 1, Len(sorted) - 1), e),
                sorted[Len(sorted)])

RECURSIVE sortByCentsDescFrom(_, _, _)
sortByCentsDescFrom(entries, i, sorted) ==
    IF i > Len(entries) THEN sorted
    ELSE sortByCentsDescFrom(entries, i + 1, insertByCentsDesc(sorted, entries[i]))

\* a sort that leaves the entries in the order of the balance list
sortByCentsNot(entries) == entries

sortByCentsDesc(entries) == sortByCentsDescFrom(entries, 1, <<>>)

Abs(n) == IF n < 0 THEN 0 - n ELSE n

Min(a, b) == IF a < b THEN a ELSE b

creditorsOf(bal) == sortByCentsDesc(SelectSeq(bal, LAMBDA entry : entry.cents > 0))

\* debtors kept with their negative balance
debtorsOfSigned(bal) == sortByCentsDesc(SelectSeq(bal, LAMBDA entry : entry.cents < 0))

debtorsOf(bal) ==
    LET owing == SelectSeq(bal, LAMBDA entry : entry.cents < 0)
    IN  sortByCentsDesc([k \in 1..Len(owing) |->
                            [member |-> owing[k].member, cents |-> Abs(owing[k].cents)]])

\* a transfer of one cent at a time
transferCent(debtor, creditor) == Min(1, Min(debtor.cents, creditor.cents))

\* a turn that moves nothing
transferNothing(debtor, creditor) == 0

\* the amount moved in one turn of the loop
transfer(debtor, creditor) == Min(debtor.cents, creditor.cents)

\* the while loop of settlements(); i and j count from 1
RECURSIVE settleLoop(_, _, _, _, _)
settleLoop(debtors, creditors, i, j, settlements) ==
    IF ~(i <= Len(debtors) /\ j <= Len(creditors)) THEN settlements
    ELSE LET debtor == debtors[i]
             creditor == creditors[j]
             amountCents == transfer(debtor, creditor)
             pushed == IF amountCents > 0
                       THEN Append(settlements,
                                   [from |-> debtor.member, to |-> creditor.member,
                                    amountCents |-> amountCents])
                       ELSE settlements
             debtorsLeft == [debtors EXCEPT ![i].cents = @ - amountCents]
             creditorsLeft == [creditors EXCEPT ![j].cents = @ - amountCents]
         IN  settleLoop(debtorsLeft, creditorsLeft,
                        IF debtorsLeft[i].cents = 0 THEN i + 1 ELSE i,
                        IF creditorsLeft[j].cents = 0 THEN j + 1 ELSE j,
                        pushed)

\* the turns of the while loop of settlements(), followed for MaxTurns
\* turns: for each turn the indices, the two lists as the turn finds them,
\* the amount it moves and the indices it leaves
RECURSIVE settleTurns(_, _, _, _, _)
settleTurns(debtors, creditors, i, j, turns) ==
    IF ~(i <= Len(debtors) /\ j <= Len(creditors)) \/ Len(turns) >= MaxTurns
    THEN turns
    ELSE LET amountCents == transfer(debtors[i], creditors[j])
             debtorsLeft == [debtors EXCEPT ![i].cents = @ - amountCents]
             creditorsLeft == [creditors EXCEPT ![j].cents = @ - amountCents]
             iNext == IF debtorsLeft[i].cents = 0 THEN i + 1 ELSE i
             jNext == IF creditorsLeft[j].cents = 0 THEN j + 1 ELSE j
         IN  settleTurns(debtorsLeft, creditorsLeft, iNext, jNext,
                         Append(turns, [i |-> i, j |-> j, debtors |-> debtors,
                                        creditors |-> creditors,
                                        amountCents |-> amountCents,
                                        iNext |-> iNext, jNext |-> jNext]))

\* the turns settlements() takes over a balance list
turnsOf(bal) == settleTurns(debtorsOf(bal), creditorsOf(bal), 1, 1, <<>>)

\* settlements() over a balance list
settlementsOf(bal) == settleLoop(debtorsOf(bal), creditorsOf(bal), 1, 1, <<>>)

settlements(map, channel) == settlementsOf(balances(map, channel))

RECURSIVE sumAmounts(_, _)
sumAmounts(events, i) ==
    IF i > Len(events) THEN 0 ELSE events[i].amountCents + sumAmounts(events, i + 1)

summary(map, channel) ==
    LET target == resolveChannel(channel)
        events == list(map, target)
    IN  [channel |-> target, eventCount |-> Len(events),
         totalCents |-> sumAmounts(events, 1),
         balances |-> balances(map, target),
         settlements |-> settlements(map, target)]

----------------------------------------------------------------------------
(* Snapshots *)

\* exportRoom(channel): the events are copied one by one
exportRoom(map, channel) ==
    LET target == resolveChannel(channel)
        events == list(map, target)
    IN  [object |-> TRUE, channel |-> target, version |-> 1, isArray |-> TRUE,
         events |-> [k \in 1..Len(events) |-> rawOf(events[k])]]

\* a loop in which a repeated txId takes the place of the entry before it
RECURSIVE normalizeEntriesKeepLast(_, _, _, _)
normalizeEntriesKeepLast(sourceEvents, i, events, clock) ==
    IF i > Len(sourceEvents) THEN events
    ELSE IF ~validEvent(sourceEvents[i])
         THEN normalizeEntriesKeepLast(sourceEvents, i + 1, events, clock)
    ELSE LET normalized == normalizeEvent(sourceEvents[i], clock)
         IN  normalizeEntriesKeepLast(
                 sourceEvents, i + 1,
                 Append(SelectSeq(events, LAMBDA e : e.txId # normalized.txId),
                        normalized),
                 clock)

\* the loop of normalizeSnapshot: invalid and repeated entries are skipped
RECURSIVE normalizeEntries(_, _, _, _)
normalizeEntries(sourceEvents, i, events, clock) ==
    IF i > Len(sourceEvents) THEN events
    ELSE IF ~validEvent(sourceEvents[i])
         THEN normalizeEntries(sourceEvents, i + 1, events, clock)
    ELSE LET normalized == normalizeEvent(sourceEvents[i], clock)
         IN  IF normalized.txId \in {events[k].txId : k \in DOMAIN events}
             THEN normalizeEntries(sourceEvents, i + 1, events, clock)
             ELSE normalizeEntries(sourceEvents, i + 1, Append(events, normalized), clock)

\* normalizeSnapshot(snapshot) for a snapshot that is an object
normalizeSnapshot(snapshot, clock) ==
    [channel |-> resolveChannel(snapshot.channel),
     version |-> snapshot.version,
     events  |-> sortByTs(normalizeEntries(
                    IF snapshot.isArray THEN snapshot.events ELSE <<>>, 1, <<>>, clock))]

\* a merge loop that does not count what it adds
RECURSIVE mergeEventsUncounted(_, _, _, _)
mergeEventsUncounted(room, events, i, added) ==
    IF i > Len(events) THEN [room |-> room, added |-> added]
    ELSE IF events[i].txId \in room.txSeen
         THEN mergeEventsUncounted(room, events, i + 1, added)
    ELSE mergeEventsUncounted([events |-> Append(room.events, events[i]),
                               txSeen |-> room.txSeen \cup {events[i].txId}],
                              events, i + 1, added)

\* a merge loop that does not look the txIds up
RECURSIVE mergeEventsUnchecked(_, _, _, _)
mergeEventsUnchecked(room, events, i, added) ==
    IF i > Len(events) THEN [room |-> room, added |-> added]
    ELSE mergeEventsUnchecked(pushEvent(room, events[i]), events, i + 1, added + 1)

\* a merge loop in which the snapshot's event takes the place of the stored
\* event with its txId
RECURSIVE mergeEventsOverwriting(_, _, _, _)
mergeEventsOverwriting(room, events, i, added) ==
    IF i > Len(events) THEN [room |-> room, added |-> added]
    ELSE IF events[i].txId \in room.txSeen
         THEN mergeEventsOverwriting(
                  [room EXCEPT !.events =
                      [k \in DOMAIN @ |-> IF @[k].txId = events[i].txId
                                          THEN events[i] ELSE @[k]]],
                  events, i + 1, added)
    ELSE mergeEventsOverwriting(pushEvent(room, events[i]), events, i + 1, added + 1)

\* the merge loop of importRoom: the room afterwards and the count added
RECURSIVE mergeEvents(_, _, _, _)
mergeEvents(room, events, i, added) ==
    IF i > Len(events) THEN [room |-> room, added |-> added]
    ELSE IF events[i].txId \in room.txSeen THEN mergeEvents(room, events, i + 1, added)
    ELSE mergeEvents(pushEvent(room, events[i]), events, i + 1, added + 1)

\* the end of importRoom: the merged room is sorted and put in the Map
importResult(created, key, merged) ==
    [rooms |-> [created EXCEPT ![key] = [merged.room EXCEPT !.events = sortByTs(@)]],
     ok |-> TRUE, channel |-> key, added |-> merged.added,
     total |-> Len(merged.room.events)]

\* an import that merges even when asked to replace
importNormalizedMerging(map, normalized, replace) ==
    LET created == getRoom(map, normalized.channel)
        merged == mergeEvents(created[normalized.channel], normalized.events, 1, 0)
    IN  [rooms |-> [created EXCEPT ![normalized.channel] =
                       [merged.room EXCEPT !.events = sortByTs(@)]],
         ok |-> TRUE, channel |-> normalized.channel, added |-> merged.added,
         total |-> Len(merged.room.events)]

\* a replace that empties the event list and keeps the dedup index
importNormalizedKeepingIndex(map, normalized, replace) ==
    LET created == getRoom(map, normalized.channel)
    IN  importResult(created, normalized.channel,
                     mergeEvents(IF replace
                                 THEN [created[normalized.channel] EXCEPT !.events = <<>>]
                                 ELSE created[normalized.channel],
                                 normalized.events, 1, 0))

\* importRoom after normalizeSnapshot
importNormalized(map, normalized, replace) ==
    importResult(getRoom(map, normalized.channel), normalized.channel,
                 mergeEvents(IF replace THEN NewRoom
                             ELSE getRoom(map, normalized.channel)[normalized.channel],
                             normalized.events, 1, 0))

\* importRoom(snapshot, {replace}) on the Map `map`: the Map afterwards and the result
importRoom(map, snapshot, replace, clock) ==
    IF ~snapshot.object
    THEN [rooms |-> map, ok |-> FALSE, channel |-> "", added |-> 0, total |-> 0]
    ELSE importNormalized(map, normalizeSnapshot(snapshot, clock), replace)

----------------------------------------------------------------------------
(* SC-Bridge: configuration, clients and replies *)

\* what new ScBridge(peer, config) is given; requireAuth is <<>> when absent
BridgeConfig(token, requireAuth, cliEnabled, sidechannel) ==
    [token |-> token, requireAuth |-> requireAuth, cliEnabled |-> cliEnabled,
     sidechannel |-> sidechannel]

NoReply == [to |-> "", id |-> <<>>, type |-> "none", error |-> ""]

\* a frame written to the socket of client `to`; `channel` is the channel of
\* a sidechannel_message frame
Frame(to, id, type, error, channel) ==
    [to |-> to, id |-> id, type |-> type, error |-> error, channel |-> channel]

\* the constructor; `sidechannel` stands for attachSidechannel having been called
ScBridge(config) ==
    [token       |-> IF config.token # <<>> /\ config.token[1] # ""
                     THEN config.token ELSE <<>>,
     requireAuth |-> config.requireAuth # <<FALSE>>,
     cliEnabled  |-> config.cliEnabled = <<TRUE>>,
     sidechannel |-> config.sidechannel,
     filterChannels |-> IF "filterChannels" \in DOMAIN config
                        THEN <<config.filterChannels>> ELSE <<>>,
     started     |-> FALSE,
     clients     |-> [c \in {} |-> <<>>],
     cliQueue    |-> <<>>,
     handled     |-> "",
     called      |-> {},
     out         |-> NoReply,
     frames      |-> <<>>]

\* start(): refuses to run without a token when auth is required
start(b) ==
    IF b.started \/ (b.requireAuth /\ b.token = <<>>) THEN b
    ELSE [b EXCEPT !.started = TRUE]

\* parseFilter(raw), on the filter strings of the model
parseFilter(raw) ==
    CASE raw = "" -> <<>>
      [] raw = "Pay" -> <<<<"pay">>>>
      [] raw = "a+B | c" -> <<<<"a", "b">>, <<"c">>>>
      [] OTHER -> <<<<ToLowerCase(Trim(raw))>>>>

\* the client object made for a new connection
NewClient(b) ==
    [ready |-> ~b.requireAuth, authed |-> ~b.requireAuth, filter |-> <<>>,
     channels |-> <<>>]

\* the connection callback of start(): the client is added and greeted
connect(b, c) ==
    [b EXCEPT !.clients = [k \in DOMAIN @ \cup {c} |->
                              IF k = c THEN NewClient(b) ELSE @[k]],
              !.handled = "", !.called = {},
              !.out = [to |-> c, id |-> <<>>, type |-> "hello", error |-> ""],
              !.frames = <<Frame(c, <<>>, "hello", "", "")>>]

\* cleanup on close, end or error of the socket; the replies still owed to
\* the client are left with a socket that is closed
cleanup(b, c) ==
    [b EXCEPT !.clients = [k \in DOMAIN @ \ {c} |-> @[k]],
              !.cliQueue = [i \in DOMAIN @ |->
                               IF @[i].client = c
                               THEN [@[i] EXCEPT !.client = "closed"] ELSE @[i]],
              !.frames = <<>>]

\* _enqueueCli: the run is chained behind the runs enqueued before it
enqueueCli(cliQueue, run) == Append(cliQueue, run)

\* a request id that is echoed whatever it is
reqIdAny(message) == message.id

\* reqId: message.id when it is an integer, else null
reqId(message) == IF Len(message.id) = 1 THEN message.id ELSE <<>>

\* reply(payload) to `message`, after the calls in `called` were made
reply(b, c, message, called, type, error) ==
    [b EXCEPT !.handled = message.type, !.called = called,
              !.out = [to |-> c, id |-> reqId(message), type |-> type,
                       error |-> error],
              !.frames = <<Frame(c, reqId(message), type, error, "")>>]

sendError(b, c, message, called, error) ==
    reply(b, c, message, called, "error", error)

\* an auth case that takes the flags back when the token is wrong
handleAuthResetting(b, c, message) ==
    IF b.token = <<>> THEN sendError(b, c, message, {}, "Auth not enabled.")
    ELSE IF message.token = b.token
    THEN reply([b EXCEPT !.clients[c].authed = TRUE, !.clients[c].ready = TRUE],
               c, message, {}, "auth_ok", "")
    ELSE sendError([b EXCEPT !.clients[c].authed = FALSE, !.clients[c].ready = FALSE],
                   c, message, {}, "Unauthorized.")

\* the auth case of _handleClientMessage
handleAuth(b, c, message) ==
    IF b.token = <<>> THEN sendError(b, c, message, {}, "Auth not enabled.")
    ELSE IF message.token = b.token
    THEN reply([b EXCEPT !.clients[c].authed = TRUE, !.clients[c].ready = TRUE],
               c, message, {}, "auth_ok", "")
    ELSE sendError(b, c, message, {}, "Unauthorized.")

\* a gate that lets every client through
rejectsNobody(b, c) == FALSE

\* the check in front of the switch: auth is required and the client has
\* not authenticated
rejectsUnauthorized(b, c) == b.requireAuth /\ ~b.clients[c].authed

\* channels named by a subscribe or unsubscribe message
channelsOf(message) ==
    IF message.channels # <<>> THEN Range(message.channels[1])
    ELSE IF message.channel # "" THEN {message.channel} ELSE {}

\* client.channels as a set, an absent Set being made first
subscribed(channels) == IF channels = <<>> THEN {} ELSE channels[1]

\* the channel an expense message names, else the app's default channel
appChannel(message) ==
    Trim(IF message.channel # "" THEN message.channel ELSE DefaultChannel)

\* the cases of the switch that touch nothing but the bridge and its
\* client; `outcome` is what an asynchronous sidechannel call came to
dispatchLocal(b, c, message, outcome) ==
    CASE message.type = "cli" ->
           IF ~b.cliEnabled
           THEN sendError(b, c, message, {}, "CLI over WS is disabled.")
           ELSE IF Trim(message.command) = ""
           THEN sendError(b, c, message, {}, "Missing command.")
           ELSE [b EXCEPT !.handled = "cli", !.called = {"cli"},
                          !.frames = <<>>,
                          !.cliQueue = enqueueCli(@, [client |-> c, id |-> reqId(message),
                                                      command |-> Trim(message.command),
                                                      running |-> FALSE])]
      [] message.type = "ping" -> reply(b, c, message, {}, "pong", "")
      [] message.type = "set_filter" ->
           reply([b EXCEPT !.clients[c].filter = parseFilter(message.filter)],
                 c, message, {}, "filter_set", "")
      [] message.type = "clear_filter" ->
           reply([b EXCEPT !.clients[c].filter = <<>>], c, message, {}, "filter_set", "")
      [] message.type = "subscribe" ->
           reply([b EXCEPT !.clients[c].channels =
                              <<subscribed(@) \cup channelsOf(message)>>],
                 c, message, {}, "subscribed", "")
      [] message.type = "unsubscribe" ->
           reply([b EXCEPT !.clients[c].channels =
                              <<subscribed(@) \ channelsOf(message)>>],
                 c, message, {}, "subscribed", "")
      [] message.type \in {"join", "leave", "open"} ->
           IF ~b.sidechannel
           THEN sendError(b, c, message, {}, "Sidechannel not ready.")
           ELSE IF Trim(message.channel) = ""
           THEN sendError(b, c, message, {}, "Missing channel.")
           ELSE IF message.type = "join"
           THEN IF outcome = "sent"
                THEN reply(b, c, message, {"sidechannel.addChannel"}, "joined", "")
                ELSE sendError(b, c, message, {"sidechannel.addChannel"},
                               IF outcome = "throws" THEN "Join failed."
                               ELSE "Join denied (invite required or invalid).")
           ELSE IF message.type = "leave"
           THEN IF outcome = "throws"
                THEN sendError(b, c, message, {"sidechannel.removeChannel"},
                               "Leave failed.")
                ELSE reply([b EXCEPT !.clients[c].channels =
                                        IF @ = <<>> THEN @
                                        ELSE <<@[1] \ {Trim(message.channel)}>>],
                           c, message, {"sidechannel.removeChannel"}, "left", "")
           ELSE IF outcome = "sent"
                THEN reply(b, c, message, {"sidechannel.requestOpen"},
                           "open_requested", "")
                ELSE sendError(b, c, message, {"sidechannel.requestOpen"},
                         "Open request denied (invalid input or missing invite/welcome).")
      [] message.type = "stats" ->
           IF ~b.sidechannel
           THEN sendError(b, c, message, {}, "Sidechannel not ready.")
           ELSE reply(b, c, message, {}, "stats", "")
      [] message.type = "info" -> sendError(b, c, message, {}, "Info not available.")
      [] message.type = "expense_list" ->
           reply(b, c, message, {"expenseSplit.list"}, "expense_list", "")
      [] message.type = "expense_balance" ->
           reply(b, c, message, {"expenseSplit.summary"}, "expense_balance", "")
      [] message.type = "expense_export" ->
           reply(b, c, message, {"expenseSplit.summary"}, "expense_export", "")
      [] OTHER -> sendError(b, c, message, {}, "Unknown type: " \o message.type)

\* the cases of the switch that reach the sidechannel, the ledger or the
\* contract
EffectTypes == {"send", "expense_add", "expense_clear", "expense_persist",
                "expense_restore"}

\* _handleClientMessage up to the switch, and the cases of dispatchLocal
handleClientMessage(b, c, message, outcome) ==
    IF ~message.object
    THEN [b EXCEPT !.handled = "", !.called = {},
                   !.out = [to |-> c, id |-> <<>>, type |-> "error",
                            error |-> "Invalid message."],
                   !.frames = <<Frame(c, <<>>, "error", "Invalid message.", "")>>]
    ELSE IF message.type = "auth" THEN handleAuth(b, c, message)
    ELSE IF rejectsUnauthorized(b, c)
    THEN sendError(b, c, message, {}, "Unauthorized.")
    ELSE dispatchLocal(b, c, message, outcome)

\* the message gets as far as the switch
passes(b, c, message) ==
    message.object /\ message.type # "auth" /\ ~rejectsUnauthorized(b, c)

\* String.prototype.includes on the message texts and filter words of the
\* model
includes(haystack, word) ==
    <<haystack, word>> \in {<<"pay up", "pay">>, <<"pay up", "a">>}

\* matchesFilter(filter, text): some group has all its words in the text
matchesFilter(filter, text) ==
    \/ Len(filter) = 0
    \/ \E g \in DOMAIN filter :
          \A w \in DOMAIN filter[g] : includes(ToLowerCase(text), filter[g][w])

\* a test under which a subscription set that was emptied admits no channel
shouldEmitSubscribedOnly(b, client, channel, messageText) ==
    IF client.channels # <<>> /\ channel \notin client.channels[1]
    THEN FALSE
    ELSE IF b.filterChannels # <<>> /\ channel \notin b.filterChannels[1]
    THEN TRUE
    ELSE matchesFilter(client.filter, messageText)

\* _shouldEmit(client, channel, messageText)
shouldEmit(b, client, channel, messageText) ==
    IF /\ client.channels # <<>> /\ client.channels[1] # {}
       /\ channel \notin client.channels[1]
    THEN FALSE
    ELSE IF b.filterChannels # <<>> /\ channel \notin b.filterChannels[1]
    THEN TRUE
    ELSE matchesFilter(client.filter, messageText)

\* the order in which the loop over this.clients visits the clients
ClientOrder == <<"c1", "c2">>

\* a fan-out that writes to clients that are not ready as well
emitsToAll(b, c, channel, messageText) ==
    c \in DOMAIN b.clients /\ shouldEmit(b, b.clients[c], channel, messageText)

\* the loop body of the bridge's handleSidechannelMessage: the client is
\* written to
emitsTo(b, c, channel, messageText) ==
    /\ c \in DOMAIN b.clients
    /\ b.clients[c].ready
    /\ shouldEmit(b, b.clients[c], channel, messageText)

\* the frames written for the clients of `order` from position i on
RECURSIVE emitFrom(_, _, _, _, _)
emitFrom(b, order, i, channel, messageText) ==
    IF i > Len(order) THEN <<>>
    ELSE (IF emitsTo(b, order[i], channel, messageText)
          THEN <<Frame(order[i], <<>>, "sidechannel_message", "", channel)>>
          ELSE <<>>) \o emitFrom(b, order, i + 1, channel, messageText)

\* ScBridge.handleSidechannelMessage(channel, payload): one
\* sidechannel_message frame for every client that is ready and not filtered
ScBridge_handleSidechannelMessage(b, channel, messageText) ==
    [b EXCEPT !.handled = "sidechannel_message", !.called = {},
              !.out = NoReply,
              !.frames = emitFrom(b, ClientOrder, 1, channel, messageText)]

\* a run that starts without waiting for the runs enqueued before it
mayStartUnchained(cliQueue, i) == ~cliQueue[i].running

\* cliQueue.then(run, run): the run at position i starts once every run
\* enqueued before it has settled and left the queue
mayStart(cliQueue, i) == i = 1 /\ ~cliQueue[i].running

\* _withConsoleCapture(fn): what the run resolves to when the command
\* returns or throws
withConsoleCapture(outcome) ==
    IF outcome = "throws" THEN [ok |-> FALSE, error |-> "thrown"]
    ELSE [ok |-> TRUE, error |-> ""]

\* the cli_result frame for a run; ok is false exactly when error is set
cliResult(run, result) ==
    Frame(run.client, run.id, "cli_result", result.error, "")

----------------------------------------------------------------------------
(* The page of the UI: state, sockets, requests *)

\* the state object when the script has loaded, with the sockets the page
\* has made, the timers that are armed and how each request was settled
UiState ==
    [ws |-> 0, authed |-> FALSE, nextId |-> 1, pending |-> {},
     timers |-> {}, sockets |-> <<>>, settled |-> <<>>]

\* new WebSocket(wsUrl); authSent: an auth message was sent on it; authOk:
\* an auth_ok frame was received on it
NewSocket == [readyState |-> "CONNECTING", authSent |-> FALSE, authOk |-> FALSE]

\* sendRaw does not throw: state.ws is set and open
canSend(u) == u.ws # 0 /\ u.sockets[u.ws].readyState = "OPEN"

\* WebSocket.close() on socket s
close(u, s) ==
    IF u.sockets[s].readyState \in {"CONNECTING", "OPEN"}
    THEN [u EXCEPT !.sockets[s].readyState = "CLOSING"]
    ELSE u

\* connect(); `filled` is whether the URL and token fields are filled in
uiConnect(u, filled) ==
    IF ~filled THEN u
    ELSE LET closed == IF canSend(u) THEN close(u, u.ws) ELSE u
         IN  [closed EXCEPT !.sockets = Append(@, NewSocket),
                            !.ws = Len(closed.sockets) + 1]

\* the click handler of disconnectBtn
uiDisconnect(u) == IF u.ws # 0 THEN close(u, u.ws) ELSE u

\* the socket's onopen: the auth message goes out through sendRaw, that is
\* on state.ws, or sendRaw throws
onopen(u, s) ==
    LET opened == [u EXCEPT !.sockets[s].readyState = "OPEN"]
    IN  IF canSend(opened)
        THEN [opened EXCEPT !.sockets[opened.ws].authSent = TRUE]
        ELSE opened

\* the socket's onclose
onclose(u, s) ==
    [u EXCEPT !.sockets[s].readyState = "CLOSED", !.authed = FALSE]

\* an onmessage that settles a request and keeps its entry and its timer
onmessageKeeping(u, s, frame) ==
    LET got == IF frame.type = "auth_ok"
               THEN [u EXCEPT !.sockets[s].authOk = TRUE] ELSE u
    IN  IF Len(frame.id) = 1 /\ frame.id[1] \in u.pending
        THEN [got EXCEPT !.settled[frame.id[1]] =
                             Append(@, IF frame.type = "error" THEN "rejected"
                                       ELSE "resolved")]
        ELSE IF frame.type = "auth_ok" THEN [got EXCEPT !.authed = TRUE]
        ELSE got

\* the socket's onmessage for a frame that parsed as JSON
onmessage(u, s, frame) ==
    LET got == IF frame.type = "auth_ok"
               THEN [u EXCEPT !.sockets[s].authOk = TRUE] ELSE u
    IN  IF Len(frame.id) = 1 /\ frame.id[1] \in u.pending
        THEN [got EXCEPT !.pending = @ \ {frame.id[1]},
                         !.timers = @ \ {frame.id[1]},
                         !.settled[frame.id[1]] =
                             Append(@, IF frame.type = "error" THEN "rejected"
                                       ELSE "resolved")]
        ELSE IF frame.type = "auth_ok" THEN [got EXCEPT !.authed = TRUE]
        ELSE got

\* request(type, payload): the executor of the promise
request(u) ==
    LET id == u.nextId
    IN  IF canSend(u)
        THEN [u EXCEPT !.nextId = id + 1, !.timers = @ \cup {id},
                       !.pending = @ \cup {id}, !.settled = Append(@, <<>>)]
        ELSE [u EXCEPT !.nextId = id + 1, !.settled = Append(@, <<"send failed">>)]

\* the callback of the request's setTimeout
timeout(u, id) ==
    IF id \notin u.pending THEN [u EXCEPT !.timers = @ \ {id}]
    ELSE [u EXCEPT !.timers = @ \ {id}, !.pending = @ \ {id},
                   !.settled[id] = Append(@, "timeout")]

----------------------------------------------------------------------------
(* State machine *)

Peers == {"p1", "p2"}

NoRooms == [k \in {} |-> NewRoom]

\* a payload that is no object (null, a string, a number)
NotAnObject ==
    [object |-> FALSE, txId |-> "", payer |-> "", amountCents |-> <<>>,
     split |-> <<>>, note |-> "", ts |-> <<>>, by |-> <<>>]

NoRet ==
    [op |-> "none", peer |-> "", channel |-> "", ok |-> FALSE, duplicate |-> FALSE,
     event |-> <<>>, added |-> 0, total |-> 0, broadcasted |-> FALSE,
     snapshot |-> <<>>, replace |-> FALSE, discarded |-> <<>>, result |-> <<>>]

\* the engines as constructed, nothing sent or persisted
InitLedger ==
    /\ rooms = [p \in Peers |-> NoRooms]
    /\ net = {}
    /\ store = [k \in {} |-> <<>>]
    /\ now = 1
    /\ issued = 0
    /\ ret = NoRet
    /\ delivered = {}
    /\ ui = UiState

Init ==
    /\ InitLedger
    /\ bridge = ScBridge(BridgeConfig(<<>>, <<>>, <<>>, FALSE))

\* no event list of the Map is longer than the model follows
Fits(map) == \A k \in DOMAIN map : Len(map[k].events) <= MaxEvents

\* time passes
Tick ==
    /\ now < MaxClock
    /\ now' = now + 1
    /\ UNCHANGED <<rooms, net, store, issued, ret, bridge, delivered, ui>>

\* a direct call of addEvent(channel, event) on peer p
AddEvent(p, channel, event) ==
    \E r \in {addEvent(rooms[p], channel, event, now)} :
        /\ Fits(r.rooms)
        /\ rooms' = [rooms EXCEPT ![p] = r.rooms]
        /\ ret' = [NoRet EXCEPT !.op = "addEvent", !.peer = p,
                                !.channel = resolveChannel(channel), !.ok = r.ok,
                                !.duplicate = r.duplicate, !.event = r.event]
        /\ UNCHANGED <<net, store, now, issued, bridge, delivered, ui>>

\* a handler that does not look at the app of the message
handleSidechannelMessageAnyApp(map, channel, payload, clock) ==
    LET message == payload.message
    IN  IF message.type = "expense_add"
        THEN [rooms |-> addEvent(map, channel, message.event, clock).rooms,
              handled |-> TRUE]
        ELSE IF message.type = "expense_clear"
        THEN [rooms |-> deleteRoom(map, resolveChannel(channel)), handled |-> TRUE]
        ELSE [rooms |-> map, handled |-> FALSE]

\* handleSidechannelMessage(channel, payload) on the Map `map`
handleSidechannelMessage(map, channel, payload, clock) ==
    LET message == payload.message
    IN  IF ~message.object \/ message.app # APP_KEY
        THEN [rooms |-> map, handled |-> FALSE]
        ELSE IF message.type = "expense_add"
        THEN [rooms |-> addEvent(map, channel, message.event, clock).rooms,
              handled |-> TRUE]
        ELSE IF message.type = "expense_clear"
        THEN [rooms |-> deleteRoom(map, resolveChannel(channel)), handled |-> TRUE]
        ELSE [rooms |-> map, handled |-> FALSE]

\* the sidechannel handler of peer p runs on `payload` for `channel`
CallReceive(p, channel, payload) ==
    \E r \in {handleSidechannelMessage(rooms[p], channel, payload, now)} :
        /\ Fits(r.rooms)
        /\ rooms' = [rooms EXCEPT ![p] = r.rooms]
        /\ ret' = [NoRet EXCEPT !.op = "handleSidechannelMessage", !.peer = p,
                                !.channel = resolveChannel(channel), !.ok = r.handled]
        /\ UNCHANGED <<net, store, now, issued, bridge, ui>>

\* peer p receives `payload` on `channel` from outside the model's transport
Receive(p, channel, payload) ==
    CallReceive(p, channel, payload) /\ UNCHANGED delivered

\* the transport delivers a broadcast to a peer: any one, any number of times
Deliver(p) ==
    \E m \in net :
        /\ CallReceive(p, m.channel, m.payload)
        /\ delivered' = delivered \cup {[peer |-> p, broadcast |-> m]}

\* createTxId(): a fresh identifier
createTxId(n) == "g" \o ToString(n)

\* the message broadcast() is given
ExpenseMessage(type, event, ts, by) ==
    [object |-> TRUE, app |-> APP_KEY, type |-> type, event |-> event,
     ts |-> ts, by |-> by]

\* what the sidechannel did with a broadcast: there is none ("absent"), it
\* returned true ("sent") or false ("refused"), or it threw ("throws")
Outcomes == {"absent", "sent", "refused", "throws"}

broadcast(channel, message, outcome) ==
    IF outcome = "sent"
    THEN net \cup {[channel |-> channel, payload |-> [message |-> message]]}
    ELSE net

\* a split in which a missing payer is put last
withPayerLast(split, payer) ==
    IF payer \in Range(split) THEN split ELSE Append(split, payer)

\* the split of a new expense: the payer is put first when missing
withPayer(split, payer) ==
    IF payer \in Range(split) THEN split ELSE <<payer>> \o split

\* the checks of addExpense on its input
rejectedExpense(input) ==
    \/ normalizeMember(input.payer) = ""
    \/ parseAmountToCents(input.amount) = <<>>
    \/ parseAmountToCents(input.amount)[1] <= 0
    \/ Len(parseMembers(input.split)) = 0

\* the event addExpense builds for peer p
newExpense(p, input, txId, clock) ==
    [object |-> TRUE, txId |-> txId, payer |-> normalizeMember(input.payer),
     amountCents |-> parseAmountToCents(input.amount),
     split |-> withPayer(parseMembers(input.split), normalizeMember(input.payer)),
     note |-> normalizeText(input.note), ts |-> <<clock>>, by |-> <<p>>]

\* an addExpense that takes the event back when the broadcast fails
expenseResultUndone(local, channel, outcome) ==
    IF local.ok /\ outcome \in {"refused", "throws"}
    THEN [rooms |-> deleteRoom(local.rooms, channel), ok |-> FALSE,
          broadcasted |-> FALSE]
    ELSE [rooms |-> local.rooms, ok |-> local.ok,
          broadcasted |-> local.ok /\ outcome = "sent"]

\* the end of addExpense, after the local addEvent: the rooms are as
\* addEvent left them whatever the sidechannel did
expenseResult(local, channel, outcome) ==
    [rooms |-> local.rooms, ok |-> local.ok,
     broadcasted |-> local.ok /\ outcome = "sent"]

\* addExpense(input) on peer p, for any caller, while the transport keeps
\* fewer than `capacity` broadcasts
AddExpenseWithin(p, input, outcome, capacity) ==
    IF rejectedExpense(input)
    THEN /\ ret' = [NoRet EXCEPT !.op = "addExpense", !.peer = p,
                                 !.channel = resolveChannel(input.channel)]
         /\ UNCHANGED <<rooms, net, store, now, issued, delivered, ui>>
    ELSE \E channel \in {resolveChannel(input.channel)},
            event \in {newExpense(p, input, createTxId(issued + 1), now)} :
         \E local \in {addEvent(rooms[p], channel, event, now)} :
         \E done \in {expenseResult(local, channel, outcome)} :
            /\ issued < MaxIssued
            /\ Fits(local.rooms)
            /\ outcome = "sent" => Cardinality(net) < capacity
            /\ issued' = issued + 1
            /\ rooms' = [rooms EXCEPT ![p] = done.rooms]
            /\ net' = IF local.ok
                      THEN broadcast(channel, ExpenseMessage("expense_add", event,
                                                             <<>>, <<>>), outcome)
                      ELSE net
            /\ ret' = [NoRet EXCEPT !.op = "addExpense", !.peer = p,
                                    !.channel = channel, !.ok = done.ok,
                                    !.event = local.event,
                                    !.broadcasted = done.broadcasted]
            /\ UNCHANGED <<store, now, delivered, ui>>

\* addExpense(input) on peer p, for any caller
CallAddExpense(p, input, outcome) == AddExpenseWithin(p, input, outcome, MaxNet)

\* a direct call of addExpense on peer p
AddExpense(p, input, outcome) ==
    CallAddExpense(p, input, outcome) /\ UNCHANGED bridge

\* a clearChannel that broadcasts whatever its options say
shouldBroadcastAlways(announce) == TRUE

\* options.broadcast !== false; announce is the option, TRUE when not given
shouldBroadcast(announce) == announce

\* clearChannel(channel, {broadcast: announce}) on peer p, for any caller,
\* while the transport keeps fewer than `capacity` broadcasts
ClearChannelWithin(p, channel, announce, outcome, capacity) ==
    LET target == resolveChannel(channel)
    IN  /\ (shouldBroadcast(announce) /\ outcome = "sent") => Cardinality(net) < capacity
        /\ rooms' = [rooms EXCEPT ![p] = deleteRoom(@, target)]
        /\ net' = IF shouldBroadcast(announce)
                  THEN broadcast(target, ExpenseMessage("expense_clear", NotAnObject,
                                                        <<now>>, <<p>>), outcome)
                  ELSE net
        /\ ret' = [NoRet EXCEPT !.op = "clearChannel", !.peer = p,
                                !.channel = target, !.ok = TRUE,
                                !.discarded = IF target \in DOMAIN rooms[p]
                                              THEN rooms[p][target].events ELSE <<>>]
        /\ UNCHANGED <<store, now, issued, delivered, ui>>

\* clearChannel(channel, {broadcast: announce}) on peer p, for any caller
CallClearChannel(p, channel, announce, outcome) ==
    ClearChannelWithin(p, channel, announce, outcome, MaxNet)

\* a direct call of clearChannel on peer p
ClearChannel(p, channel, announce, outcome) ==
    CallClearChannel(p, channel, announce, outcome) /\ UNCHANGED bridge

\* importRoom(snapshot, {replace}) on peer p
ImportRoom(p, snapshot, replace) ==
    \E r \in {importRoom(rooms[p], snapshot, replace, now)} :
        /\ Fits(r.rooms)
        /\ rooms' = [rooms EXCEPT ![p] = r.rooms]
        /\ ret' = [NoRet EXCEPT !.op = "importRoom", !.peer = p, !.channel = r.channel,
                                !.ok = r.ok, !.added = r.added, !.total = r.total,
                                !.snapshot = <<snapshot>>, !.replace = replace]
        /\ UNCHANGED <<net, store, now, issued, bridge, delivered, ui>>

\* the key the bridge persists and restores a room under
storeChannel(channel) == ToLowerCase(Trim(channel))

storeKey(channel) == "expense/room/" \o channel

\* the expense_persist case on the bridge of peer p; the contract applies the
\* tx or not
CallPersist(p, channel, applied) ==
    LET target == storeChannel(channel)
        snapshot == exportRoom(rooms[p], target)
    IN  /\ target # ""
        /\ store' = IF applied
                    THEN [k \in DOMAIN store \cup {storeKey(target)} |->
                             IF k = storeKey(target) THEN snapshot ELSE store[k]]
                    ELSE store
        /\ ret' = [NoRet EXCEPT !.op = "persist", !.peer = p, !.channel = target,
                                !.ok = applied]
        /\ UNCHANGED <<rooms, net, now, issued, delivered, ui>>

\* expense_persist from a client that is let through
Persist(p, channel, applied) == CallPersist(p, channel, applied) /\ UNCHANGED bridge

\* the expense_restore case on the bridge of peer p
CallRestore(p, channel, replace) ==
    LET target == storeChannel(channel)
    IN  /\ target # ""
        /\ IF storeKey(target) \in DOMAIN store
           THEN \E r \in {importRoom(rooms[p], store[storeKey(target)], replace, now)} :
                    /\ Fits(r.rooms)
                    /\ rooms' = [rooms EXCEPT ![p] = r.rooms]
                    /\ ret' = [NoRet EXCEPT !.op = "restore", !.peer = p,
                                            !.channel = r.channel, !.ok = r.ok,
                                            !.added = r.added, !.total = r.total]
           ELSE /\ rooms' = rooms
                /\ ret' = [NoRet EXCEPT !.op = "restore", !.peer = p,
                                        !.channel = target]
        /\ UNCHANGED <<net, store, now, issued, delivered, ui>>

\* expense_restore from a client that is let through
Restore(p, channel, replace) == CallRestore(p, channel, replace) /\ UNCHANGED bridge

\* the calls that read a room
Queries == {"list", "balances", "settlements", "summary", "exportRoom"}

\* what the query returns on the Map `map`
answer(query, map, channel) ==
    CASE query = "list"        -> list(map, channel)
      [] query = "balances"    -> balances(map, channel)
      [] query = "settlements" -> settlements(map, channel)
      [] query = "summary"     -> summary(map, channel)
      [] query = "exportRoom"  -> exportRoom(map, channel)

\* a call of list, balances, settlements, summary or exportRoom on peer p;
\* each of them reaches the Map through list() alone
Query(p, query, channel) ==
    /\ rooms' = [rooms EXCEPT ![p] = lookup(@, channel)]
    /\ ret' = [NoRet EXCEPT !.op = query, !.peer = p,
                            !.channel = resolveChannel(channel), !.ok = TRUE,
                            !.result = <<answer(query, rooms[p], channel)>>]
    /\ UNCHANGED <<net, store, now, issued, bridge, delivered, ui>>

\* the parts of an export that are the room's own objects: events.map makes
\* a new array and {...event} a new object, whose split is still the array
\* of the stored event
SharedWithRoom == {"split"}

\* the caller of exportRoom(channel) changes what it was handed: it pushes
\* to the events array, assigns the payer of the k-th event, or pushes
\* `member` to the split of the k-th event
MutateExport(p, channel, k, part, member) ==
    LET target == resolveChannel(channel)
        exported == exportRoom(rooms[p], target).events
    IN  /\ k \in DOMAIN exported
        /\ Len(exported[k].split) < MaxSplit
        /\ rooms' = IF part \in SharedWithRoom
                    THEN [rooms EXCEPT ![p][target].events =
                            [i \in DOMAIN @ |->
                                IF @[i].txId = exported[k].txId
                                THEN [@[i] EXCEPT !.split = Append(@, member)]
                                ELSE @[i]]]
                    ELSE rooms
        /\ ret' = [NoRet EXCEPT !.op = "mutateExport", !.peer = p,
                                !.channel = target, !.ok = TRUE]
        /\ UNCHANGED <<net, store, now, issued, bridge, delivered, ui>>

\* a client connects to the bridge
Connect(c) ==
    /\ bridge.started
    /\ c \notin DOMAIN bridge.clients
    /\ bridge' = connect(bridge, c)
    /\ UNCHANGED <<rooms, net, store, now, issued, ret, delivered, ui>>

\* the socket of a client closes
Disconnect(c) ==
    /\ c \in DOMAIN bridge.clients
    /\ bridge' = cleanup(bridge, c)
    /\ UNCHANGED <<rooms, net, store, now, issued, ret, delivered, ui>>

\* a message that is answered without leaving the bridge: one that is
\* turned away, or a case of dispatchLocal
ClientMessageWithin(c, message, capacity) ==
    /\ c \in DOMAIN bridge.clients
    /\ ~(passes(bridge, c, message) /\ message.type \in EffectTypes)
    /\ (/\ passes(bridge, c, message) /\ message.type = "cli"
        /\ bridge.cliEnabled /\ Trim(message.command) # "")
          => Len(bridge.cliQueue) < capacity
    /\ \E outcome \in Outcomes \ {"absent"} :
          bridge' = handleClientMessage(bridge, c, message, outcome)
    /\ UNCHANGED <<rooms, net, store, now, issued, ret, delivered, ui>>

ClientMessage(c, message) == ClientMessageWithin(c, message, MaxCli)

\* the head of the CLI queue has run and its result is sent
RunCli ==
    /\ bridge.cliQueue # <<>>
    /\ ~Head(bridge.cliQueue).running
    /\ bridge' = [bridge EXCEPT
                     !.cliQueue = Tail(@),
                     !.handled = "", !.called = {},
                     !.out = [to |-> Head(bridge.cliQueue).client,
                              id |-> Head(bridge.cliQueue).id,
                              type |-> "cli_result", error |-> ""],
                     !.frames = <<cliResult(Head(bridge.cliQueue),
                                            withConsoleCapture("returns"))>>]
    /\ UNCHANGED <<rooms, net, store, now, issued, ret, delivered, ui>>

\* the run at position i of the CLI queue starts: _dispatchCli is called
StartCli(i) ==
    /\ i \in DOMAIN bridge.cliQueue
    /\ mayStart(bridge.cliQueue, i)
    /\ bridge' = [bridge EXCEPT !.cliQueue[i].running = TRUE]
    /\ UNCHANGED <<rooms, net, store, now, issued, ret, delivered, ui>>

\* the command of the run at position i returns or throws: the run settles
\* and its cli_result is sent
FinishCli(i, outcome) ==
    /\ i \in DOMAIN bridge.cliQueue
    /\ bridge.cliQueue[i].running
    /\ bridge' = [bridge EXCEPT
                     !.cliQueue = SubSeq(@, 1, i - 1) \o SubSeq(@, i + 1, Len(@)),
                     !.handled = "", !.called = {},
                     !.out = [to |-> bridge.cliQueue[i].client,
                              id |-> bridge.cliQueue[i].id,
                              type |-> "cli_result",
                              error |-> withConsoleCapture(outcome).error],
                     !.frames = <<cliResult(bridge.cliQueue[i],
                                            withConsoleCapture(outcome))>>]
    /\ UNCHANGED <<rooms, net, store, now, issued, ret, delivered, ui>>

\* the Connect button is clicked
ClickConnect(filled) ==
    /\ filled => Len(ui.sockets) < MaxSockets
    /\ ui' = uiConnect(ui, filled)
    /\ UNCHANGED <<rooms, net, store, now, issued, ret, bridge, delivered>>

\* the Disconnect button is clicked
ClickDisconnect ==
    /\ ui' = uiDisconnect(ui)
    /\ UNCHANGED <<rooms, net, store, now, issued, ret, bridge, delivered>>

\* socket s is connected: its open event
SocketOpen(s) ==
    /\ s \in DOMAIN ui.sockets
    /\ ui.sockets[s].readyState = "CONNECTING"
    /\ ui' = onopen(ui, s)
    /\ UNCHANGED <<rooms, net, store, now, issued, ret, bridge, delivered>>

\* socket s is closed, by close(), by the bridge or by a failure: its close
\* event
SocketClose(s) ==
    /\ s \in DOMAIN ui.sockets
    /\ ui.sockets[s].readyState # "CLOSED"
    /\ ui' = onclose(ui, s)
    /\ UNCHANGED <<rooms, net, store, now, issued, ret, bridge, delivered>>

\* a frame arrives on socket s, which is open; an auth_ok answers an auth
\* message that was sent on s
SocketMessage(s, frame) ==
    /\ s \in DOMAIN ui.sockets
    /\ ui.sockets[s].readyState = "OPEN"
    /\ frame.type = "auth_ok" => ui.sockets[s].authSent
    /\ ui' = onmessage(ui, s, frame)
    /\ UNCHANGED <<rooms, net, store, now, issued, ret, bridge, delivered>>

\* a handler of the page calls request()
CallRequest ==
    /\ ui.nextId <= MaxRequests
    /\ ui' = request(ui)
    /\ UNCHANGED <<rooms, net, store, now, issued, ret, bridge, delivered>>

\* the timer of request `id` fires
TimerFires(id) ==
    /\ id \in ui.timers
    /\ ui' = timeout(ui, id)
    /\ UNCHANGED <<rooms, net, store, now, issued, ret, bridge, delivered>>

\* a message arrives on the sidechannel and is handed to the bridge
SidechannelTraffic(channel, messageText) ==
    /\ bridge' = ScBridge_handleSidechannelMessage(bridge, channel, messageText)
    /\ UNCHANGED <<rooms, net, store, now, issued, ret, delivered, ui>>

\* the send case: the payload is broadcast on the channel
ClientSend(c, message, outcome) ==
    /\ c \in DOMAIN bridge.clients
    /\ passes(bridge, c, message) /\ message.type = "send"
    /\ IF ~bridge.sidechannel
       THEN /\ bridge' = sendError(bridge, c, message, {}, "Sidechannel not ready.")
            /\ net' = net
       ELSE IF Trim(message.channel) = ""
       THEN /\ bridge' = sendError(bridge, c, message, {}, "Missing channel.")
            /\ net' = net
       ELSE /\ outcome = "sent" => Cardinality(net) < MaxNet
            /\ net' = IF outcome = "sent"
                      THEN net \cup {[channel |-> Trim(message.channel),
                                      payload |-> [message |-> message.message]]}
                      ELSE net
            /\ bridge' = IF outcome = "sent"
                         THEN reply(bridge, c, message, {"sidechannel.broadcast"},
                                    "sent", "")
                         ELSE sendError(bridge, c, message, {"sidechannel.broadcast"},
                                        "Send denied (invite required or invalid).")
    /\ UNCHANGED <<rooms, store, now, issued, ret, delivered, ui>>

\* the expense_add case: the fields are checked, then app.addExpense
ClientExpenseAdd(c, message, outcome) ==
    /\ c \in DOMAIN bridge.clients
    /\ passes(bridge, c, message) /\ message.type = "expense_add"
    /\ IF \/ Trim(message.payer) = "" \/ message.amount = <<>>
          \/ Len(parseMembers(message.split)) = 0
       THEN /\ bridge' = sendError(bridge, c, message, {},
                            "Missing fields. Required: channel, payer, amount, split.")
            /\ UNCHANGED <<rooms, net, store, now, issued, ret, delivered, ui>>
       ELSE /\ CallAddExpense("p1", [channel |-> appChannel(message),
                                     payer |-> Trim(message.payer),
                                     amount |-> message.amount,
                                     split |-> parseMembers(message.split),
                                     note |-> message.note], outcome)
            /\ bridge' = IF ret'.ok
                         THEN reply(bridge, c, message, {"expenseSplit.addExpense"},
                                    "expense_added", "")
                         ELSE sendError(bridge, c, message, {"expenseSplit.addExpense"},
                                        "Failed to add expense.")

\* the expense_clear case: app.clearChannel(channel)
ClientExpenseClear(c, message, outcome) ==
    /\ c \in DOMAIN bridge.clients
    /\ passes(bridge, c, message) /\ message.type = "expense_clear"
    /\ CallClearChannel("p1", appChannel(message), TRUE, outcome)
    /\ bridge' = reply(bridge, c, message, {"expenseSplit.clearChannel"},
                       "expense_cleared", "")

\* the expense_persist case
ClientPersist(c, message, applied) ==
    /\ c \in DOMAIN bridge.clients
    /\ passes(bridge, c, message) /\ message.type = "expense_persist"
    /\ CallPersist("p1", IF message.channel # "" THEN message.channel
                         ELSE DefaultChannel, applied)
    /\ bridge' = IF applied
                 THEN reply(bridge, c, message, {"expenseSplit.exportRoom", "protocol.tx"},
                            "expense_persisted", "")
                 ELSE sendError(bridge, c, message,
                                {"expenseSplit.exportRoom", "protocol.tx"},
                                "Persist failed")

\* the expense_restore case
ClientRestore(c, message) ==
    /\ c \in DOMAIN bridge.clients
    /\ passes(bridge, c, message) /\ message.type = "expense_restore"
    /\ CallRestore("p1", IF message.channel # "" THEN message.channel
                         ELSE DefaultChannel, message.replace)
    /\ bridge' = IF ret'.ok
                 THEN reply(bridge, c, message, {"protocol.get", "expenseSplit.importRoom"},
                            "expense_restored", "")
                 ELSE sendError(bridge, c, message, {"protocol.get"},
                                "No persisted snapshot found.")

----------------------------------------------------------------------------
(* Inputs *)

RawEvent(txId, payer, amountCents, split, ts) ==
    [object |-> TRUE, txId |-> txId, payer |-> payer, amountCents |-> amountCents,
     split |-> split, note |-> " ", ts |-> ts, by |-> <<>>]

\* events as they reach addEvent: valid ones (two with the same txId once
\* trimmed, one without ts, one with an amount of 3.5) and one for each way
\* of being invalid
ValidEvents ==
    {RawEvent("t1", "a", <<3>>, <<"a", "B">>, <<2>>),
     RawEvent("t1", "a", <<3, 5>>, <<"a", "B">>, <<2>>),
     RawEvent(" t1", "B ", <<1>>, <<"c">>, <<1>>),
     RawEvent("t2", "B ", <<4>>, <<"B ", " a", "b", "", "c">>, <<>>)}

InvalidEvents ==
    {RawEvent(" ", "a", <<3>>, <<"a">>, <<1>>),
     RawEvent("t1", " ", <<3>>, <<"a">>, <<1>>),
     RawEvent("t1", "a", <<>>, <<"a">>, <<1>>),
     RawEvent("t1", "a", <<0>>, <<"a">>, <<1>>),
     RawEvent("t1", "a", <<0, 5>>, <<"a">>, <<1>>),
     RawEvent("t1", "a", <<3>>, <<" ", "">>, <<1>>),
     NotAnObject}

Events == ValidEvents \cup InvalidEvents

Channels == {"trip", "Trip"}

Expense(channel, payer, amount, split) ==
    [channel |-> channel, payer |-> payer, amount |-> amount, split |-> split,
     note |-> ""]

\* what addExpense is called with; amounts in thousandths
Expenses ==
    {Expense(" trip", "B ", <<1005>>, <<"a", "c", "a">>),
     Expense("trip", " ", <<1000>>, <<"a">>),
     Expense("trip", "a", <<>>, <<"a">>),
     Expense("trip", "a", <<4>>, <<"a">>),
     Expense("Trip", "a", <<1000>>, <<" ">>)}

Snapshot(channel, isArray, events) ==
    [object |-> TRUE, channel |-> channel, version |-> 1, isArray |-> isArray,
     events |-> events]

NotASnapshot == [Snapshot("", FALSE, <<>>) EXCEPT !.object = FALSE]

\* a snapshot out of ts order that repeats a txId
TripSnapshot ==
    Snapshot("trip", TRUE,
             <<RawEvent("t2", "B ", <<4>>, <<"B ", " a", "b", "", "c">>, <<2>>),
               RawEvent("t1", "a", <<3>>, <<"a", "B">>, <<1>>),
               RawEvent(" t1", "B ", <<1>>, <<"c">>, <<1>>)>>)

\* snapshots as they reach importRoom
Snapshots ==
    {TripSnapshot,
     Snapshot("Trip", TRUE,
              <<RawEvent("t1", "a", <<0>>, <<"a">>, <<1>>),
                RawEvent("t2", "B ", <<4>>, <<"B ", " a", "b", "", "c">>, <<>>)>>),
     Snapshot("Trip", FALSE, <<>>),
     Snapshot(" trip", TRUE, <<>>),
     NotASnapshot}

\* what other applications and other peers put on the sidechannel
Payloads ==
    {[message |-> ExpenseMessage("expense_add", e, <<>>, <<>>)] :
        e \in ValidEvents \cup {NotAnObject}}
    \cup {[message |-> ExpenseMessage("expense_clear", NotAnObject, <<1>>, <<>>)],
          [message |-> ExpenseMessage("expense_list", NotAnObject, <<>>, <<>>)],
          [message |-> [ExpenseMessage("expense_clear", NotAnObject, <<>>, <<>>)
                           EXCEPT !.app = "chat"]],
          [message |-> [ExpenseMessage("expense_add", NotAnObject, <<>>, <<>>)
                           EXCEPT !.object = FALSE]]}

----------------------------------------------------------------------------
(* The ledger of one peer under every operation *)

Next ==
    \/ \E channel \in Channels, event \in ValidEvents : AddEvent("p1", channel, event)
    \/ \E event \in InvalidEvents : AddEvent("p1", "Trip", event)
    \/ \E input \in Expenses : AddExpense("p1", input, "absent")
    \/ \E channel \in Channels, announce \in BOOLEAN :
          ClearChannel("p1", channel, announce, "absent")
    \/ \E snapshot \in Snapshots, replace \in BOOLEAN :
          ImportRoom("p1", snapshot, replace)
    \/ \E channel \in Channels, replace \in BOOLEAN :
          ImportRoom("p1", exportRoom(rooms["p1"], channel), replace)
    \/ \E channel \in Channels, payload \in Payloads : Receive("p1", channel, payload)

Spec == Init /\ [][Next]_vars

----------------------------------------------------------------------------
(* Two peers of one room on the sidechannel *)

SyncEvents == {RawEvent("t1", "a", <<3>>, <<"a", "B">>, <<2>>)}

SyncExpenses == {Expense(" trip", "B ", <<1005>>, <<"a", "c", "a">>)}

NextSync ==
    \/ \E p \in Peers, event \in SyncEvents : AddEvent(p, "trip", event)
    \/ \E p \in Peers, input \in SyncExpenses, outcome \in Outcomes :
          AddExpense(p, input, outcome)
    \/ \E p \in Peers, announce \in BOOLEAN, outcome \in Outcomes :
          ClearChannel(p, "trip", announce, outcome)
    \/ \E p \in Peers : Deliver(p)

SpecSync == Init /\ [][NextSync]_vars

----------------------------------------------------------------------------
(* One room under addEvent: amounts, splits and payers *)

LedgerTxId(payer) ==
    CASE payer = "a" -> "t1" [] payer = "b" -> "t2" [] OTHER -> "t3"

LedgerSplits == {<<"d">>, <<"e">>, <<"c", "a", "b">>}

LedgerEvents ==
    {RawEvent(LedgerTxId(payer), payer, <<cents>>, split, <<1>>) :
        payer \in {"a", "b", "c"}, cents \in {2, 3}, split \in LedgerSplits}
    \cup {RawEvent("t1", "a", <<3>>, <<"B", "a">>, <<1>>),
          RawEvent("t2", "b", <<5>>, <<"e", "d">>, <<1>>),
          RawEvent("t3", "c", <<1>>, <<"a", "c">>, <<1>>)}

NextLedger == \E event \in LedgerEvents : AddEvent("p1", "trip", event)

SpecLedger == Init /\ [][NextLedger]_vars

----------------------------------------------------------------------------
(* The same events applied to the rooms of two engines, in any order *)

OrderEvents ==
    {RawEvent("t1", "a", <<3>>, <<"a", "B">>, <<2>>),
     RawEvent("t2", "B ", <<4>>, <<"B ", " a", "b", "", "c">>, <<>>),
     RawEvent("t3", "c", <<1>>, <<"a">>, <<1>>)}

NextOrder ==
    \/ Tick
    \/ \E p \in Peers, event \in OrderEvents : AddEvent(p, "trip", event)

SpecOrder == Init /\ [][NextOrder]_vars

----------------------------------------------------------------------------
(* A room exported, persisted, cleared and restored, on two engines *)

StoreEvents ==
    {RawEvent("t1", "a", <<3>>, <<"a", "B">>, <<2>>),
     RawEvent("t2", "B ", <<4>>, <<"B ", " a", "b", "", "c">>, <<>>),
     RawEvent("t3", "c", <<1>>, <<"a">>, <<1>>)}

NextStore ==
    \/ \E event \in StoreEvents : AddEvent("p1", "trip", event)
    \/ ClearChannel("p1", "trip", FALSE, "absent")
    \/ \E applied \in BOOLEAN : Persist("p1", " trip", applied)
    \/ \E p \in Peers, replace \in BOOLEAN : Restore(p, "trip", replace)
    \/ \E replace \in BOOLEAN :
          ImportRoom("p2", exportRoom(rooms["p1"], "trip"), replace)

SpecStore == Init /\ [][NextStore]_vars

----------------------------------------------------------------------------
(* The bridge of peer p1 and its clients *)

ClientIds == {"c1"}

\* configurations the bridge is constructed with: auth required (by
\* default) with a token, auth switched off without and with a token, and
\* auth required with an empty token, which start() refuses
BridgeConfigs ==
    {BridgeConfig(<<"secret">>, <<>>, <<TRUE>>, TRUE),
     BridgeConfig(<<>>, <<FALSE>>, <<>>, FALSE),
     BridgeConfig(<<"secret">>, <<FALSE>>, <<TRUE>>, TRUE),
     BridgeConfig(<<"">>, <<TRUE>>, <<TRUE>>, TRUE)}

ClientMsg(type, id) ==
    [object |-> TRUE, id |-> id, type |-> type, token |-> <<>>, channel |-> "",
     channels |-> <<>>, filter |-> "", command |-> "", payer |-> "",
     amount |-> <<>>, split |-> <<>>, note |-> "", replace |-> FALSE,
     message |-> NotAnObject]

\* what clients write to the socket, once parsed
BridgeMessages ==
    {[ClientMsg("auth", <<7>>) EXCEPT !.token = <<"secret">>],
     [ClientMsg("auth", <<>>) EXCEPT !.token = <<"guess">>],
     ClientMsg("auth", <<>>),
     ClientMsg("ping", <<7>>),
     [ClientMsg("set_filter", <<>>) EXCEPT !.filter = "Pay"],
     ClientMsg("clear_filter", <<>>),
     [ClientMsg("subscribe", <<>>) EXCEPT !.channels = <<<<"trip">>>>],
     [ClientMsg("unsubscribe", <<>>) EXCEPT !.channel = "trip"],
     [ClientMsg("cli", <<7>>) EXCEPT !.command = "/help "],
     ClientMsg("cli", <<>>),
     [ClientMsg("join", <<>>) EXCEPT !.channel = " trip"],
     [ClientMsg("leave", <<>>) EXCEPT !.channel = "trip"],
     ClientMsg("open", <<>>),
     ClientMsg("stats", <<>>),
     ClientMsg("info", <<>>),
     ClientMsg("expense_list", <<>>),
     [ClientMsg("expense_balance", <<7>>) EXCEPT !.channel = "trip"],
     ClientMsg("expense_export", <<>>),
     [ClientMsg("send", <<7>>) EXCEPT
         !.channel = "trip",
         !.message = ExpenseMessage("expense_add",
                        RawEvent("t1", "a", <<3>>, <<"a", "B">>, <<2>>), <<>>, <<>>)],
     ClientMsg("send", <<>>),
     [ClientMsg("expense_add", <<7>>) EXCEPT
         !.channel = " trip", !.payer = "B ", !.amount = <<1005>>,
         !.split = <<"a", "c", "a">>],
     [ClientMsg("expense_add", <<>>) EXCEPT !.payer = "a"],
     [ClientMsg("expense_clear", <<>>) EXCEPT !.channel = "trip"],
     [ClientMsg("expense_persist", <<>>) EXCEPT !.channel = " trip"],
     [ClientMsg("expense_restore", <<7>>) EXCEPT !.channel = "Trip"],
     ClientMsg("bogus", <<7, 5>>),
     [ClientMsg("", <<>>) EXCEPT !.object = FALSE]}

InitBridge ==
    /\ InitLedger
    /\ bridge \in {start(ScBridge(config)) : config \in BridgeConfigs}

NextBridge ==
    \/ \E c \in ClientIds : Connect(c)
    \/ \E c \in ClientIds : Disconnect(c)
    \/ \E c \in ClientIds, message \in BridgeMessages : ClientMessage(c, message)
    \/ RunCli
    \/ \E c \in ClientIds, message \in BridgeMessages, outcome \in {"sent", "refused"} :
          ClientSend(c, message, outcome)
    \/ \E c \in ClientIds, message \in BridgeMessages, outcome \in {"absent", "sent"} :
          ClientExpenseAdd(c, message, outcome)
    \/ \E c \in ClientIds, message \in BridgeMessages, outcome \in {"absent", "sent"} :
          ClientExpenseClear(c, message, outcome)

SpecBridge == InitBridge /\ [][NextBridge]_vars

----------------------------------------------------------------------------
(* The bridge under sidechannel traffic, with two clients *)

FanoutClients == {"c1", "c2"}

\* auth required with a token and a filter limited to one channel, and auth
\* switched off
FanoutConfigs ==
    {[token |-> <<"secret">>, requireAuth |-> <<>>, cliEnabled |-> <<TRUE>>,
      sidechannel |-> TRUE, filterChannels |-> {"trip"}],
     BridgeConfig(<<>>, <<FALSE>>, <<TRUE>>, TRUE)}

FanoutMessages ==
    {[ClientMsg("auth", <<7>>) EXCEPT !.token = <<"secret">>],
     [ClientMsg("auth", <<>>) EXCEPT !.token = <<"guess">>],
     ClientMsg("ping", <<7, 5>>),
     [ClientMsg("set_filter", <<>>) EXCEPT !.filter = "Pay"],
     [ClientMsg("subscribe", <<7>>) EXCEPT !.channels = <<<<"trip">>>>],
     [ClientMsg("unsubscribe", <<>>) EXCEPT !.channel = "trip"],
     [ClientMsg("cli", <<7>>) EXCEPT !.command = "/help"],
     [ClientMsg("leave", <<>>) EXCEPT !.channel = "trip"],
     ClientMsg("expense_list", <<7>>),
     [ClientMsg("", <<>>) EXCEPT !.object = FALSE]}

TrafficChannels == {"trip", "other"}

TrafficTexts == {"pay up", "hello"}

InitFanout ==
    /\ InitLedger
    /\ bridge \in {start(ScBridge(config)) : config \in FanoutConfigs}

NextFanout ==
    \/ \E c \in FanoutClients : Connect(c)
    \/ \E c \in FanoutClients : Disconnect(c)
    \/ \E c \in FanoutClients, message \in FanoutMessages :
          ClientMessageWithin(c, message, MaxQueued)
    \/ \E i \in 1..MaxQueued : StartCli(i)
    \/ \E i \in 1..MaxQueued, outcome \in {"returns", "throws"} : FinishCli(i, outcome)
    \/ \E channel \in TrafficChannels, messageText \in TrafficTexts :
          SidechannelTraffic(channel, messageText)

SpecFanout == InitFanout /\ [][NextFanout]_vars

----------------------------------------------------------------------------
(* The page of the UI and its sockets *)

\* frames the bridge writes, as the page's onmessage sees them
UiFrames ==
    {[type |-> type, id |-> id] :
        type \in {"auth_ok", "error", "expense_added", "sidechannel_message"},
        id \in {<<>>, <<1>>, <<2>>}}

NextUi ==
    \/ \E filled \in BOOLEAN : ClickConnect(filled)
    \/ ClickDisconnect
    \/ \E s \in 1..MaxSockets : SocketOpen(s)
    \/ \E s \in 1..MaxSockets : SocketClose(s)
    \/ \E s \in 1..MaxSockets, frame \in UiFrames : SocketMessage(s, frame)
    \/ CallRequest
    \/ \E id \in 1..MaxRequests : TimerFires(id)

SpecUi == Init /\ [][NextUi]_vars

\* a timer that is armed fires
SpecUiFair == SpecUi /\ \A id \in 1..MaxRequests : WF_vars(TimerFires(id))

----------------------------------------------------------------------------
(* One room under imports, while time passes *)

ImportEvents ==
    {RawEvent("t1", "a", <<3>>, <<"a", "B">>, <<2>>),
     RawEvent("t3", "c", <<1>>, <<"a">>, <<1>>)}

NextImport ==
    \/ Tick
    \/ \E channel \in Channels, event \in ImportEvents : AddEvent("p1", channel, event)
    \/ \E channel \in Channels : ClearChannel("p1", channel, FALSE, "absent")
    \/ \E snapshot \in Snapshots, replace \in BOOLEAN :
          ImportRoom("p1", snapshot, replace)

SpecImport == Init /\ [][NextImport]_vars

----------------------------------------------------------------------------
(* A room whose exports are changed by the caller that holds them *)

ExportParts == {"events", "payer", "split"}

NextExport ==
    \/ \E event \in StoreEvents : AddEvent("p1", "trip", event)
    \/ \E k \in 1..MaxEvents, part \in ExportParts :
          MutateExport("p1", "trip", k, part, "d")

SpecExport == Init /\ [][NextExport]_vars

----------------------------------------------------------------------------
(* Properties *)

\* the txIds indexed by the room of `channel` on peer p
Seen(p, channel) ==
    IF resolveChannel(channel) \in DOMAIN rooms[p]
    THEN rooms[p][resolveChannel(channel)].txSeen ELSE {}

\* the number of entries of `events` with this txId
Count(events, txId) == Cardinality({k \in DOMAIN events : events[k].txId = txId})

Stored(map, channel) ==
    IF resolveChannel(channel) \in DOMAIN map
    THEN map[resolveChannel(channel)].events ELSE <<>>

\* the expense_add broadcasts in flight
AddsInFlight == {m \in net : m.payload.message.type = "expense_add"}

\* C1: re-applying an event whose txId the room has indexed reports
\* {ok, duplicate} and changes nothing, by a direct addEvent or by a
\* broadcast coming back through handleSidechannelMessage; after either,
\* the room holds exactly one event of that txId.
C1_IdempotentMerge ==
    [][/\ \A p \in Peers, e \in SyncEvents :
            (ret'.op = "addEvent" /\ ret'.peer = p /\ AddEvent(p, "trip", e)) =>
               /\ normalizeText(e.txId) \in Seen(p, "trip") =>
                     /\ rooms' = rooms
                     /\ ret'.ok /\ ret'.duplicate
               /\ Count(Stored(rooms'[p], "trip"), normalizeText(e.txId)) = 1
       /\ \A p \in Peers, m \in AddsInFlight :
            (/\ ret'.op = "handleSidechannelMessage" /\ ret'.peer = p
             /\ CallReceive(p, m.channel, m.payload)) =>
               /\ m.payload.message.event.txId \in Seen(p, m.channel) =>
                     rooms' = rooms
               /\ Count(Stored(rooms'[p], m.channel),
                        m.payload.message.event.txId) = 1]_vars

\* a peer has received its own broadcast back and still holds one event
C1_Witness ==
    \E p \in Peers :
        /\ ret.op = "handleSidechannelMessage" /\ ret.peer = p /\ ret.ok
        /\ Len(Stored(rooms[p], "trip")) = 1
        /\ Stored(rooms[p], "trip")[1].by = <<p>>

\* C3: in every room the events have pairwise distinct txIds and the
\* dedup index is exactly the set of their txIds.
C3_RoomInvariant ==
    \A p \in Peers : \A key \in DOMAIN rooms[p] :
        LET room == rooms[p][key]
        IN  /\ \A i, j \in DOMAIN room.events :
                  room.events[i].txId = room.events[j].txId => i = j
            /\ room.txSeen = {room.events[i].txId : i \in DOMAIN room.events}

\* an import has put two events into a room that held one
C3_Witness ==
    /\ ret.op = "importRoom" /\ ret.ok /\ ret.added = 1 /\ ret.total = 2
    /\ Len(Stored(rooms["p1"], ret.channel)) = 2

\* the room of the ledger specifications
Trip(p) == list(rooms[p], "trip")

RECURSIVE SumCents(_, _)
SumCents(entries, i) ==
    IF i > Len(entries) THEN 0 ELSE entries[i].cents + SumCents(entries, i + 1)

RECURSIVE SumRows(_, _)
SumRows(rows, i) ==
    IF i > Len(rows) THEN 0 ELSE rows[i].amountCents + SumRows(rows, i + 1)

\* the events of two rooms without their ts
Untimed(events) ==
    {[txId |-> e.txId, payer |-> e.payer, amountCents |-> e.amountCents,
      split |-> e.split, note |-> e.note, by |-> e.by] : e \in Range(events)}

\* the txIds of the events that arrive with a ts
TimedIds == {normalizeText(e.txId) : e \in {o \in OrderEvents : o.ts # <<>>}}

Timed(events) == {e \in Range(events) : e.txId \in TimedIds}

\* C2 as stated: two rooms that were given the same events, in any order
\* and any number of times, hold the same set of events and give the same
\* balances and settlements.
C2_OrderIndependence ==
    Seen("p1", "trip") = Seen("p2", "trip") =>
        /\ Range(Trip("p1")) = Range(Trip("p2"))
        /\ balances(rooms["p1"], "trip") = balances(rooms["p2"], "trip")
        /\ settlements(rooms["p1"], "trip") = settlements(rooms["p2"], "trip")

\* C2 amended: the two rooms hold the same events up to the ts of an event
\* that arrived without one (each room stamps it with its own clock), the
\* same events outright among those that arrived with a ts, and give the
\* same balances and settlements.
C2_OrderIndependenceUpToTs ==
    Seen("p1", "trip") = Seen("p2", "trip") =>
        /\ Untimed(Trip("p1")) = Untimed(Trip("p2"))
        /\ Timed(Trip("p1")) = Timed(Trip("p2"))
        /\ balances(rooms["p1"], "trip") = balances(rooms["p2"], "trip")
        /\ settlements(rooms["p1"], "trip") = settlements(rooms["p2"], "trip")

\* both rooms hold the three events, stored in different orders
C2_Witness ==
    /\ Len(Stored(rooms["p1"], "trip")) = 3
    /\ Seen("p1", "trip") = Seen("p2", "trip")
    /\ Stored(rooms["p1"], "trip")[1].txId # Stored(rooms["p2"], "trip")[1].txId

\* C4: the balances of a room sum to zero.
C4_BalanceConservation ==
    \A p \in Peers : \A key \in DOMAIN rooms[p] :
        SumCents(balances(rooms[p], key), 1) = 0

\* an amount that does not divide by its split, and a payer outside the split
C4_Witness ==
    /\ \E k \in DOMAIN Trip("p1") :
          Trip("p1")[k].amountCents % Len(Trip("p1")[k].split) # 0
    /\ \E k \in DOMAIN Trip("p1") :
          Trip("p1")[k].payer \notin Range(Trip("p1")[k].split)
    /\ \E k \in DOMAIN balances(rooms["p1"], "trip") :
          balances(rooms["p1"], "trip")[k].cents # 0

\* what the member owes for the event: floor(a/n), one cent more at the
\* first a mod n positions of the split, nothing outside the split
Owed(event, member) ==
    IF member \notin Range(event.split) THEN 0
    ELSE LET k == CHOOSE i \in DOMAIN event.split : event.split[i] = member
             n == Len(event.split)
         IN  (event.amountCents \div n)
             + (IF k - 1 < event.amountCents % n THEN 1 ELSE 0)

Paid(event, member) == IF event.payer = member THEN event.amountCents ELSE 0

RECURSIVE NetOf(_, _, _)
NetOf(events, i, member) ==
    IF i > Len(events) THEN 0
    ELSE Paid(events[i], member) - Owed(events[i], member)
         + NetOf(events, i + 1, member)

RECURSIVE OwedByAll(_, _)
OwedByAll(event, k) ==
    IF k > Len(event.split) THEN 0
    ELSE Owed(event, event.split[k]) + OwedByAll(event, k + 1)

\* C5: balances() charges the member at split position k floor(a/n) + 1
\* when k < a - n*floor(a/n) and floor(a/n) otherwise: every balance is
\* the sum of what the member paid minus these shares, and the shares of
\* an event sum to its amount.
C5_RemainderDistribution ==
    /\ \A k \in DOMAIN balances(rooms["p1"], "trip") :
          LET entry == balances(rooms["p1"], "trip")[k]
          IN  entry.cents = NetOf(Trip("p1"), 1, entry.member)
    /\ \A k \in DOMAIN Trip("p1") : OwedByAll(Trip("p1")[k], 1) = Trip("p1")[k].amountCents

\* 3 cents split between b and a, in this order: b owes 2 and a owes 1
C5_Witness ==
    /\ Len(Trip("p1")) = 1
    /\ Trip("p1")[1].split = <<"b", "a">>
    /\ Trip("p1")[1].amountCents = 3
    /\ balances(rooms["p1"], "trip") =
          <<[member |-> "a", cents |-> 2], [member |-> "b", cents |-> -2]>>

Positive(n) == IF n > 0 THEN n ELSE 0

RECURSIVE SumPositive(_, _)
SumPositive(entries, i) ==
    IF i > Len(entries) THEN 0
    ELSE Positive(entries[i].cents) + SumPositive(entries, i + 1)

RECURSIVE SumNegative(_, _)
SumNegative(entries, i) ==
    IF i > Len(entries) THEN 0
    ELSE Positive(0 - entries[i].cents) + SumNegative(entries, i + 1)

\* C6: every settlement row is positive and the rows sum to what the
\* creditors are owed, which is what the debtors owe.
C6_SettlementTotals ==
    LET bal == balances(rooms["p1"], "trip")
        rows == settlements(rooms["p1"], "trip")
    IN  /\ \A k \in DOMAIN rows : rows[k].amountCents > 0
        /\ SumRows(rows, 1) = SumPositive(bal, 1)
        /\ SumRows(rows, 1) = SumNegative(bal, 1)

\* two debtors and two creditors, settled in three rows
C6_Witness ==
    /\ Len(debtorsOf(balances(rooms["p1"], "trip"))) = 2
    /\ Len(creditorsOf(balances(rooms["p1"], "trip"))) = 2
    /\ Len(settlements(rooms["p1"], "trip")) = 3

\* C7: a room with participants has at most participants - 1 settlements.
C7_SettlementBound ==
    LET bal == balances(rooms["p1"], "trip")
    IN  Len(bal) >= 1 => Len(settlements(rooms["p1"], "trip")) <= Len(bal) - 1

\* five participants settled in four rows
C7_Witness ==
    /\ Len(balances(rooms["p1"], "trip")) = 5
    /\ Len(settlements(rooms["p1"], "trip")) = 4

\* the members with a balance other than zero
Unsettled(bal) == {k \in DOMAIN bal : bal[k].cents # 0}

RECURSIVE SumOver(_, _)
SumOver(bal, ks) ==
    IF ks = {} THEN 0
    ELSE LET k == CHOOSE x \in ks : TRUE
         IN  bal[k].cents + SumOver(bal, ks \ {k})

\* the most groups the members ks can be split into, each summing to zero
RECURSIVE MostGroups(_, _)
MostGroups(bal, ks) ==
    IF ks = {} THEN 0
    ELSE LET k == CHOOSE x \in ks : TRUE
             groups == {g \in SUBSET ks : k \in g /\ SumOver(bal, g) = 0}
             counts == {1 + MostGroups(bal, ks \ g) : g \in groups}
         IN  CHOOSE n \in counts : \A m \in counts : m <= n

\* the fewest payments that clear the balances: a group of g members that
\* sums to zero needs g - 1 payments and no fewer
FewestRows(bal) == Cardinality(Unsettled(bal)) - MostGroups(bal, Unsettled(bal))

\* C8: settlements() returns a plan with the fewest possible rows.
C8_MinimalPlan ==
    LET bal == balances(rooms["p1"], "trip")
    IN  SumCents(bal, 1) = 0 => Len(settlementsOf(bal)) <= FewestRows(bal)

\* C9 as stated: importing the export of a room into that room with
\* replace reports added = 0 and the old total, and list() is unchanged.
C9_RoundTripSameRoom ==
    [][\A channel \in Channels :
          (/\ ret'.op = "importRoom" /\ ret'.channel = channel
           /\ ImportRoom("p1", exportRoom(rooms["p1"], channel), TRUE)) =>
             /\ ret'.ok
             /\ ret'.added = 0
             /\ ret'.total = Len(list(rooms["p1"], channel))
             /\ list(rooms'["p1"], channel) = list(rooms["p1"], channel)]_vars

\* C9 amended: importing the export of a room into that room with replace
\* reports added = total = the number of events the room held, and list()
\* is unchanged.
C9_RoundTripSameRoomCounted ==
    [][\A channel \in Channels :
          (/\ ret'.op = "importRoom" /\ ret'.channel = channel
           /\ ImportRoom("p1", exportRoom(rooms["p1"], channel), TRUE)) =>
             /\ ret'.ok
             /\ ret'.added = Len(list(rooms["p1"], channel))
             /\ ret'.total = Len(list(rooms["p1"], channel))
             /\ list(rooms'["p1"], channel) = list(rooms["p1"], channel)]_vars

\* a room of three events has been replaced by its own export
C9_Witness ==
    /\ ret.op = "importRoom" /\ ret.ok /\ ret.added = 3 /\ ret.total = 3
    /\ Len(list(rooms["p1"], ret.channel)) = 3

\* the events a snapshot carries, as list() gives them
FromSnapshot(snapshot) ==
    [k \in DOMAIN snapshot.events |-> normalizeEvent(snapshot.events[k], now)]

\* C10: importing the export of a room of N events into an empty room, on
\* another engine or after the room was cleared, reports added = total = N
\* and gives the target the list, balances and settlements of the source.
C10_RoundTripEmptyRoom ==
    [][/\ \A replace \in BOOLEAN :
            (/\ ret'.op = "importRoom"
             /\ Stored(rooms["p2"], "trip") = <<>>
             /\ ImportRoom("p2", exportRoom(rooms["p1"], "trip"), replace)) =>
               /\ ret'.ok
               /\ ret'.added = Len(Trip("p1")) /\ ret'.total = Len(Trip("p1"))
               /\ list(rooms'["p2"], "trip") = Trip("p1")
               /\ balances(rooms'["p2"], "trip") = balances(rooms["p1"], "trip")
               /\ settlements(rooms'["p2"], "trip") = settlements(rooms["p1"], "trip")
       /\ \A p \in Peers, replace \in BOOLEAN :
            (/\ ret'.op = "restore" /\ ret'.peer = p
             /\ storeKey("trip") \in DOMAIN store
             /\ Stored(rooms[p], "trip") = <<>>
             /\ Restore(p, "trip", replace)) =>
               LET source == FromSnapshot(store[storeKey("trip")])
               IN  /\ ret'.ok
                   /\ ret'.added = Len(source) /\ ret'.total = Len(source)
                   /\ list(rooms'[p], "trip") = source
                   /\ balances(rooms'[p], "trip") = balancesOf(source)
                   /\ settlements(rooms'[p], "trip") = settlementsOf(balancesOf(source))]_vars

\* the cleared room of p1 holds its three persisted events again
C10_Witness ==
    /\ ret.op = "restore" /\ ret.peer = "p1" /\ ret.ok
    /\ ret.added = 3 /\ ret.total = 3
    /\ storeKey("trip") \in DOMAIN store
    /\ Trip("p1") = FromSnapshot(store[storeKey("trip")])

\* C11: once importRoom(s, {replace: false}) has succeeded, importing the
\* same snapshot again with nothing but the passing of time in between
\* reports added = 0 and leaves the events, their order and the dedup index
\* of every room as they were.
C11_ReimportNoOp ==
    [][\A s \in Snapshots :
          (/\ ret.op = "importRoom" /\ ret.ok /\ ~ret.replace /\ ret.snapshot = <<s>>
           /\ ret'.op = "importRoom" /\ ~ret'.replace /\ ret'.snapshot = <<s>>
           /\ ImportRoom("p1", s, FALSE)) =>
              /\ ret'.ok
              /\ ret'.added = 0
              /\ rooms' = rooms]_vars

\* the snapshot that brought t2 in has been imported again and added nothing
C11_Witness ==
    /\ ret.op = "importRoom" /\ ret.ok /\ ~ret.replace
    /\ ret.snapshot = <<TripSnapshot>>
    /\ ret.added = 0 /\ ret.total = 3
    /\ now = 1
    /\ \E k \in DOMAIN Stored(rooms["p1"], "trip") :
          /\ Stored(rooms["p1"], "trip")[k].txId = "t2"
          /\ Stored(rooms["p1"], "trip")[k].ts = 2

\* a raw amountCents that is a whole number greater than 0
PositiveInteger(value) == Len(value) = 1 /\ value[1] > 0

\* an event that fails one of the stated checks: no object, no txId, no
\* payer, an amountCents that is no positive integer, or an empty split
FailsValidation(event) ==
    \/ ~event.object
    \/ normalizeText(event.txId) = ""
    \/ normalizeMember(event.payer) = ""
    \/ ~PositiveInteger(event.amountCents)
    \/ Len(parseMembers(event.split)) = 0

\* C12: addEvent with a payload that fails validation (no object, empty
\* txId, empty payer, amountCents not a positive safe integer, empty split)
\* returns ok: false and leaves the Map of rooms, with every event list and
\* dedup index, as it was; no room is created.
C12_InvalidRejected ==
    [][\A channel \in Channels, e \in Events :
          (/\ FailsValidation(e)
           /\ ret'.op = "addEvent"
           /\ AddEvent("p1", channel, e)) =>
              /\ ~ret'.ok
              /\ rooms' = rooms]_vars

\* a snapshot that is no object or carries no events array
Malformed(snapshot) == ~snapshot.object \/ ~snapshot.isArray

\* C13: importRoom with a snapshot that is no object, or that has no events
\* array, returns ok: false whether replace is true or false, and leaves
\* every room's events and dedup index as they were.
C13_MalformedSnapshotRejected ==
    [][\A s \in Snapshots, replace \in BOOLEAN :
          (/\ Malformed(s)
           /\ ret'.op = "importRoom" /\ ret'.snapshot = <<s>> /\ ret'.replace = replace
           /\ ImportRoom("p1", s, replace)) =>
              /\ ~ret'.ok
              /\ rooms' = rooms]_vars

\* identifiers that differ only in letter case or surrounding whitespace
SameRoomIds == {"trip", "Trip", " trip"}

\* C14: room identifiers are trimmed and lower-cased, so identifiers that
\* differ only in case or surrounding whitespace name one room: list,
\* balances, exportRoom and the snapshot expense_persist takes give the same
\* events under each of them.
C14_RoomIdNormalized ==
    \A c1, c2 \in SameRoomIds :
        /\ list(rooms["p1"], c1) = list(rooms["p1"], c2)
        /\ balances(rooms["p1"], c1) = balances(rooms["p1"], c2)
        /\ exportRoom(rooms["p1"], c1).events = exportRoom(rooms["p1"], c2).events
        /\ exportRoom(rooms["p1"], storeChannel(c1)).events
              = exportRoom(rooms["p1"], c2).events

\* C15: clearChannel returns {ok: true, channel} whether or not the room
\* existed, and leaves the room with no events (list, balances and
\* settlements empty) and no dedup index: every event the clear discarded
\* is stored again, with duplicate: false, when it is applied next.
C15_ClearIsReset ==
    ret.op = "clearChannel" =>
        /\ ret.ok
        /\ list(rooms[ret.peer], ret.channel) = <<>>
        /\ balances(rooms[ret.peer], ret.channel) = <<>>
        /\ settlements(rooms[ret.peer], ret.channel) = <<>>
        /\ Seen(ret.peer, ret.channel) = {}
        /\ \A k \in DOMAIN ret.discarded :
              LET again == addEvent(rooms[ret.peer], ret.channel,
                                    rawOf(ret.discarded[k]), now)
              IN  /\ again.ok /\ ~again.duplicate
                  /\ Stored(again.rooms, ret.channel) = <<ret.discarded[k]>>

\* a room with two events has just been cleared
C15_Witness ==
    /\ ret.op = "clearChannel" /\ ret.ok
    /\ Len(ret.discarded) = 2
    /\ ret.channel \notin DOMAIN rooms[ret.peer]

\* C16: addExpense with a valid payer, amount and split stores the new
\* event in the local room and returns ok: true whatever the sidechannel
\* does (absent, broadcast returning true or false, a throw); the other
\* peer's rooms are untouched and only `broadcasted` tells the cases apart.
C16_TransportFailureKeepsLocal ==
    [][\A p \in Peers, input \in SyncExpenses, outcome \in Outcomes :
          (/\ ~rejectedExpense(input)
           /\ ret'.op = "addExpense" /\ ret'.peer = p
           /\ AddExpense(p, input, outcome)) =>
              /\ ret'.ok
              /\ ret'.broadcasted = (outcome = "sent")
              /\ Stored(rooms'[p], input.channel)
                    = Append(Stored(rooms[p], input.channel), ret'.event[1])
              /\ ret'.event[1].txId \notin Seen(p, input.channel)
              /\ \A q \in Peers \ {p} : rooms'[q] = rooms[q]]_vars

\* an expense has been stored although nothing was broadcast
C16_Witness ==
    \E p \in Peers :
        /\ ret.op = "addExpense" /\ ret.peer = p /\ ret.ok /\ ~ret.broadcasted
        /\ net = {}
        /\ ret.event # <<>>
        /\ \E k \in DOMAIN Stored(rooms[p], "trip") :
              Stored(rooms[p], "trip")[k] = ret.event[1]

\* a name as normalizeMember leaves it: trimmed, lower-cased, not empty
MemberName(name) == name # "" /\ Trim(name) = name /\ ToLowerCase(name) = name

\* C17: every event of every room has a non-empty txId, a non-empty
\* lower-cased payer, an amountCents greater than 0 and a non-empty split
\* of pairwise distinct lower-cased members, whichever of addExpense,
\* addEvent, a received expense_add or importRoom stored it.
C17_StoredEventsValid ==
    \A p \in Peers : \A key \in DOMAIN rooms[p] :
        \A k \in DOMAIN rooms[p][key].events :
            LET e == rooms[p][key].events[k]
            IN  /\ e.txId # "" /\ Trim(e.txId) = e.txId
                /\ MemberName(e.payer)
                /\ e.amountCents \in Nat \ {0}
                /\ Len(e.split) > 0
                /\ \A i \in DOMAIN e.split : MemberName(e.split[i])
                /\ \A i, j \in DOMAIN e.split : e.split[i] = e.split[j] => i = j

\* a room holds an expense made by addExpense next to an event that came
\* with an upper-case payer and a split with blanks and repetitions
C17_Witness ==
    \E key \in DOMAIN rooms["p1"] :
        LET events == rooms["p1"][key].events
        IN  /\ \E k \in DOMAIN events : events[k].by = <<"p1">>
            /\ \E k \in DOMAIN events :
                  /\ events[k].txId = "t2" /\ events[k].by = <<>>
                  /\ events[k].payer = "b" /\ events[k].split = <<"b", "a", "c">>

\* the step is the bridge handling `message` from client c
Handles(c, message) ==
    \/ ClientMessage(c, message)
    \/ \E outcome \in Outcomes :
          \/ ClientSend(c, message, outcome)
          \/ ClientExpenseAdd(c, message, outcome)
          \/ ClientExpenseClear(c, message, outcome)
    \/ \E applied \in BOOLEAN : ClientPersist(c, message, applied)
    \/ ClientRestore(c, message)

\* C18: while requireAuth is set and a client has not authenticated, every
\* message of a type other than auth is answered with the error
\* 'Unauthorized.' and nothing else happens: no call to the sidechannel, the
\* ledger or the CLI, and no change to any client's filter or subscriptions.
C18_AuthGate ==
    [][\A c \in ClientIds :
          (/\ c \in DOMAIN bridge.clients
           /\ bridge.requireAuth /\ ~bridge.clients[c].authed
           /\ bridge'.out.to = c) =>
              \A m \in BridgeMessages :
                  (/\ m.object /\ m.type # "auth"
                   /\ bridge'.handled = m.type
                   /\ Handles(c, m)) =>
                      /\ bridge'.out = [to |-> c, id |-> reqId(m), type |-> "error",
                                        error |-> "Unauthorized."]
                      /\ bridge'.called = {}
                      /\ bridge'.clients = bridge.clients
                      /\ bridge'.cliQueue = bridge.cliQueue
                      /\ UNCHANGED <<rooms, net, store, issued, ret>>]_vars

\* an expense_add from a client that has not authenticated was turned away
C18_Witness ==
    /\ bridge.requireAuth
    /\ "c1" \in DOMAIN bridge.clients
    /\ ~bridge.clients["c1"].authed
    /\ bridge.handled = "expense_add"
    /\ bridge.out = [to |-> "c1", id |-> <<7>>, type |-> "error",
                     error |-> "Unauthorized."]
    /\ rooms["p1"] = NoRooms

\* the entries of a snapshot's events array that are valid and are the
\* first valid entry with their txId
FirstValid(snapshot) ==
    {i \in DOMAIN snapshot.events :
        /\ snapshot.isArray
        /\ ~FailsValidation([snapshot.events[i] EXCEPT
                                !.amountCents = parseInt(@)])
        /\ \A j \in 1..(i - 1) :
              \/ FailsValidation([snapshot.events[j] EXCEPT
                                     !.amountCents = parseInt(@)])
              \/ Trim(snapshot.events[j].txId) # Trim(snapshot.events[i].txId)}

C20_ExportDeepCopy ==
    [][ret'.op = "mutateExport" =>
          /\ list(rooms'["p1"], "trip") = list(rooms["p1"], "trip")
          /\ balances(rooms'["p1"], "trip") = balances(rooms["p1"], "trip")
          /\ exportRoom(rooms'["p1"], "trip") = exportRoom(rooms["p1"], "trip")]_vars

----------------------------------------------------------------------------
(* C21: clearing and the transport *)

\* the expense_clear broadcasts among the messages `sent`
Clears(sent) == {m \in sent : m.payload.message.type = "expense_clear"}

\* C21 as stated: a clearChannel call sends nothing to the sidechannel, it
\* leaves the set of broadcasts as it was
C21_ClearSendsNothing ==
    [][ret'.op = "clearChannel" => net' = net]_vars

\* C21: clearChannel deletes the room of its own engine and touches no other
\* room, no other engine, the store, the clock or the txId counter; called
\* with broadcast false it sends nothing; otherwise what it sends, itself, is
\* at most one expense_clear broadcast on the cleared room, signed by the peer
C21_ClearLocalUnlessAnnounced ==
    [][/\ ret'.op = "clearChannel" =>
            /\ rooms' = [rooms EXCEPT ![ret'.peer] = deleteRoom(@, ret'.channel)]
            /\ store' = store /\ now' = now /\ issued' = issued
            /\ net \subseteq net'
            /\ Cardinality(net' \ net) <= 1
            /\ \A m \in net' \ net :
                  /\ m.channel = ret'.channel
                  /\ m.payload.message =
                        ExpenseMessage("expense_clear", NotAnObject, <<now>>,
                                       <<ret'.peer>>)
       /\ \A p \in Peers, outcome \in Outcomes :
             ClearChannel(p, "trip", FALSE, outcome) => net' = net
       /\ \A p \in Peers :
             (net = {} /\ ClearChannel(p, "trip", TRUE, "sent")) =>
                Clears(net') # {}]_vars

\* a clearChannel call discarded a room's events and its own broadcast of
\* the clear is on the sidechannel
C21_Witness ==
    /\ ret.op = "clearChannel"
    /\ ret.discarded # <<>>
    /\ \E m \in Clears(net) :
          m.channel = ret.channel /\ m.payload.message.by = <<ret.peer>>

----------------------------------------------------------------------------
(* C22: three rooms of one engine under every mutating operation *)

\* room identifiers: two that differ in case and one that is blank, which
\* names the default room
RoomChannels == {"trip", "Trip", " "}

RoomEvents == {RawEvent("t1", "a", <<3>>, <<"a", "B">>, <<2>>)}

RoomSnapshots ==
    {Snapshot(channel, TRUE,
              <<RawEvent("t1", "a", <<3>>, <<"a", "B">>, <<2>>),
                RawEvent("t3", "c", <<1>>, <<"a">>, <<1>>)>>) :
        channel \in RoomChannels}

RoomPayloads ==
    {[message |-> ExpenseMessage("expense_add",
                     RawEvent("t1", "a", <<3>>, <<"a", "B">>, <<2>>), <<>>, <<>>)],
     [message |-> ExpenseMessage("expense_clear", NotAnObject, <<1>>, <<>>)]}

NextRooms ==
    \/ \E channel \in RoomChannels, event \in RoomEvents :
          AddEvent("p1", channel, event)
    \/ \E channel \in RoomChannels :
          AddExpense("p1", Expense(channel, "a", <<1000>>, <<"a">>), "absent")
    \/ \E channel \in RoomChannels : ClearChannel("p1", channel, TRUE, "absent")
    \/ \E snapshot \in RoomSnapshots, replace \in BOOLEAN :
          ImportRoom("p1", snapshot, replace)
    \/ \E channel \in RoomChannels, payload \in RoomPayloads :
          Receive("p1", channel, payload)

SpecRooms == Init /\ [][NextRooms]_vars

\* the operations that change a room
Mutating ==
    {"addEvent", "addExpense", "clearChannel", "importRoom",
     "handleSidechannelMessage"}

\* room k of peer p is the same before and after the step
SameRoom(p, k) ==
    /\ (k \in DOMAIN rooms[p]) = (k \in DOMAIN rooms'[p])
    /\ k \in DOMAIN rooms[p] => rooms'[p][k] = rooms[p][k]

\* C22: a mutating operation on room A leaves the events and the dedup index
\* of every other room as they were; importRoom works on the room named by
\* the snapshot's channel, the default room when that is blank; and whether
\* addEvent finds a txId already stored depends on room A's index alone, so
\* a txId held by another room is stored again in room A
C22_RoomsIsolated ==
    [][ret'.op \in Mutating =>
          /\ \A k \in (DOMAIN rooms["p1"] \cup DOMAIN rooms'["p1"]) \ {ret'.channel} :
                SameRoom("p1", k)
          /\ SameRoom("p2", "trip") /\ DOMAIN rooms'["p2"] = DOMAIN rooms["p2"]
          /\ (ret'.op = "importRoom" /\ ret'.ok) =>
                ret'.channel = (IF Trim(ret'.snapshot[1].channel) = ""
                                THEN DefaultChannel
                                ELSE Trim(ret'.snapshot[1].channel))
          /\ (ret'.op = "addEvent" /\ ret'.ok) =>
                /\ ret'.duplicate = (ret'.event[1].txId \in Seen("p1", ret'.channel))
                /\ ret'.event[1].txId \in rooms'["p1"][ret'.channel].txSeen]_vars

\* an import into the default room, named by a blank channel, stored t1
\* there while the rooms trip and Trip each hold their own t1
C22_Witness ==
    /\ ret.op = "importRoom"
    /\ ret.snapshot[1].channel = " "
    /\ ret.channel = DefaultChannel
    /\ ret.added = 2
    /\ \A channel \in RoomChannels : "t1" \in Seen("p1", channel)
    /\ Cardinality({resolveChannel(channel) : channel \in RoomChannels}) = 3

----------------------------------------------------------------------------
(* C23: two peers whose expenses and clears all go out on the sidechannel *)

ConvergeExpenses == {Expense("trip", "a", <<1000>>, <<"a">>)}

NextConverge ==
    \/ \E p \in Peers, input \in ConvergeExpenses :
          AddExpenseWithin(p, input, "sent", MaxSent) /\ UNCHANGED bridge
    \/ \E p \in Peers :
          ClearChannelWithin(p, "trip", TRUE, "sent", MaxSent) /\ UNCHANGED bridge
    \/ \E p \in Peers : Deliver(p)

SpecConverge == Init /\ [][NextConverge]_vars

\* the peer that issued broadcast m: `by` of the event or of the clear
issuer(m) ==
    IF m.payload.message.type = "expense_add"
    THEN m.payload.message.event.by ELSE m.payload.message.by

\* every broadcast issued has reached every peer other than the one that
\* issued it, which applied it when it sent it
AllDelivered ==
    \A m \in net, p \in Peers :
        issuer(m) # <<p>> => [peer |-> p, broadcast |-> m] \in delivered

\* C23 as stated: once every expense_add and expense_clear broadcast issued
\* for the room has been delivered to every peer, all peers hold the same set
\* of events for the room
C23_Convergence ==
    AllDelivered =>
        \A p, q \in Peers : Range(list(rooms[p], "trip")) = Range(list(rooms[q], "trip"))

----------------------------------------------------------------------------
(* C24: one room listed after events and snapshots that arrive out of order *)

ListEvents ==
    {RawEvent("t1", "a", <<3>>, <<"a", "B">>, <<2>>),
     RawEvent("t3", "c", <<1>>, <<"a">>, <<1>>),
     RawEvent("t2", "B ", <<4>>, <<"B ", " a", "b", "", "c">>, <<>>)}

\* a snapshot out of ts order with two events of the same ts
TieSnapshot ==
    Snapshot("trip", TRUE,
             <<RawEvent("t2", "B ", <<4>>, <<"c">>, <<2>>),
               RawEvent("t3", "c", <<1>>, <<"a">>, <<1>>),
               RawEvent("t1", "a", <<3>>, <<"a", "B">>, <<1>>)>>)

\* a snapshot whose first entry for t1 is invalid, followed by two valid
\* entries for t1 and by an entry that is no object
MixedSnapshot ==
    Snapshot("trip", TRUE,
             <<RawEvent("t1", "a", <<0>>, <<"a">>, <<1>>),
               RawEvent("t1", "a", <<3>>, <<"a", "B">>, <<1>>),
               RawEvent(" t1", "B ", <<1>>, <<"c">>, <<1>>),
               NotAnObject>>)

ListSnapshots == {TieSnapshot, TripSnapshot, MixedSnapshot}

NextList ==
    \/ Tick
    \/ \E event \in ListEvents : AddEvent("p1", "trip", event)
    \/ ClearChannel("p1", "trip", FALSE, "absent")
    \/ \E snapshot \in ListSnapshots, replace \in BOOLEAN :
          ImportRoom("p1", snapshot, replace)

SpecList == Init /\ [][NextList]_vars

\* the place of the event with `txId` in a list that holds it
Pos(events, txId) == CHOOSE k \in DOMAIN events : events[k].txId = txId

TxIds(events) == {events[k].txId : k \in DOMAIN events}

\* the step is a call, whose result is in ret', and not the clock's
Called(op) == ret'.op = op /\ now' = now

\* the events the room keeps through the step: none when the step clears
\* the room or replaces its content
Kept ==
    IF Called("clearChannel") \/ (Called("importRoom") /\ ret'.replace)
    THEN {}
    ELSE TxIds(list(rooms["p1"], "trip")) \cap TxIds(list(rooms'["p1"], "trip"))

\* entry of the imported snapshot from which the event `txId` was taken
EntryOf(txId) ==
    CHOOSE i \in FirstValid(ret'.snapshot[1]) :
        Trim(ret'.snapshot[1].events[i].txId) = txId

\* C24: list(room) is in non-decreasing ts order in every state; and among
\* events of equal ts it keeps the order of insertion: a step keeps the
\* mutual order of the events already there, puts the events it inserts
\* after them, and puts the events one import inserts in snapshot order
C24_ListOrdered ==
    /\ [](\A k \in 1..(Len(list(rooms["p1"], "trip")) - 1) :
            list(rooms["p1"], "trip")[k].ts <= list(rooms["p1"], "trip")[k + 1].ts)
    /\ [][LET before == list(rooms["p1"], "trip")
              after == list(rooms'["p1"], "trip")
          IN  \A i, j \in DOMAIN after :
                (i < j /\ after[i].ts = after[j].ts) =>
                    LET a == after[i].txId
                        b == after[j].txId
                    IN  /\ (a \in Kept /\ b \in Kept) =>
                              /\ Pos(before, a) < Pos(before, b)
                              /\ before[Pos(before, a)] = after[i]
                              /\ before[Pos(before, b)] = after[j]
                        /\ b \in Kept => a \in Kept
                        /\ (a \notin Kept /\ b \notin Kept) =>
                              /\ Called("importRoom")
                              /\ EntryOf(a) < EntryOf(b)]_vars

\* an import put t3 and t1, of the same ts and in that order in the
\* snapshot, before t2, which arrived earlier and has a later ts
C24_Witness ==
    /\ ret.op = "importRoom" /\ ret.snapshot = <<TieSnapshot>> /\ ret.added = 2
    /\ LET events == list(rooms["p1"], "trip")
       IN  /\ Len(events) = 3
           /\ events[1].txId = "t3" /\ events[2].txId = "t1" /\ events[3].txId = "t2"
           /\ events[1].ts = events[2].ts
           /\ Stored(rooms["p1"], "trip") = events

----------------------------------------------------------------------------
(* C25: what an import stores and what it reports *)

----------------------------------------------------------------------------
(* C26: an import and the same entries applied one by one *)

\* addEvent(channel, e) for each entry e of `entries` from the i-th on, in
\* order: the Map afterwards and the number of calls that returned
\* duplicate false
RECURSIVE applyEach(_, _, _, _, _, _)
applyEach(map, channel, entries, i, clock, stored) ==
    IF i > Len(entries) THEN [rooms |-> map, stored |-> stored]
    ELSE LET r == addEvent(map, channel, entries[i], clock)
         IN  applyEach(r.rooms, channel, entries, i + 1, clock,
                       IF r.ok /\ ~r.duplicate THEN stored + 1 ELSE stored)

\* the txIds indexed by the room of `channel` in the Map `map`
SeenIn(map, channel) ==
    IF resolveChannel(channel) \in DOMAIN map
    THEN map[resolveChannel(channel)].txSeen ELSE {}

\* C26: importRoom(s, {replace: false}) leaves the room named by s with the
\* set of events and the dedup index that addEvent leaves when called for
\* each entry of s in snapshot order, and returns as added the number of
\* those calls that return duplicate false
C26_ImportIsLiveMerge ==
    [][(Called("importRoom") /\ ret'.ok /\ ~ret'.replace) =>
          LET s == ret'.snapshot[1]
              live == applyEach(rooms["p1"], s.channel,
                                IF s.isArray THEN s.events ELSE <<>>, 1, now, 0)
          IN  /\ Range(Stored(rooms'["p1"], s.channel))
                    = Range(Stored(live.rooms, s.channel))
              /\ SeenIn(rooms'["p1"], s.channel) = SeenIn(live.rooms, s.channel)
              /\ ret'.added = live.stored
              /\ \A k \in DOMAIN live.rooms \ {resolveChannel(s.channel)} :
                    k \in DOMAIN rooms'["p1"] /\ rooms'["p1"][k] = live.rooms[k]]_vars

\* a merging import of the snapshot that repeats t1 met a room that held a
\* different t1: it added t2 alone and the room's own t1 is still there
C26_Witness ==
    /\ ret.op = "importRoom" /\ ret.ok /\ ~ret.replace
    /\ ret.snapshot = <<TripSnapshot>>
    /\ ret.added = 1 /\ ret.total = 2
    /\ \E k \in DOMAIN Stored(rooms["p1"], "trip") :
          /\ Stored(rooms["p1"], "trip")[k].txId = "t1"
          /\ Stored(rooms["p1"], "trip")[k].ts = 2

----------------------------------------------------------------------------
(* C27: the payer in the split *)

\* C27: an event created by addExpense has its payer in its split: the split
\* is the caller's list of members when that names the payer, and otherwise
\* the payer followed by that list, so that the payer's share takes a
\* remainder cent when there is one; the event is stored as built.  An
\* expense_add message is stored when its event is valid, whether or not its
\* split names the payer.
C27_PayerInSplit ==
    [][/\ \A input \in Expenses :
             (/\ ret'.op = "addExpense" /\ ret'.ok
              /\ AddExpense("p1", input, "absent")) =>
                LET e == ret'.event[1]
                    given == parseMembers(input.split)
                IN  /\ e.payer = ToLowerCase(Trim(input.payer))
                    /\ e.payer \in Range(e.split)
                    /\ e.payer \in Range(given) => e.split = given
                    /\ e.payer \notin Range(given) =>
                          /\ e.split = <<e.payer>> \o given
                          /\ remainder(e) > 0 => share(e, 0) = baseShare(e) + 1
                    /\ e \in Range(Stored(rooms'["p1"], ret'.channel))
       /\ \A channel \in Channels, payload \in Payloads :
             (/\ ret'.op = "handleSidechannelMessage" /\ ret'.ok
              /\ payload.message.type = "expense_add"
              /\ ~FailsValidation([payload.message.event EXCEPT
                                      !.amountCents = parseInt(@)])
              /\ Receive("p1", channel, payload)) =>
                Trim(payload.message.event.txId) \in SeenIn(rooms'["p1"], channel)]_vars

\* addExpense put the payer b, whom the caller left out, first in the split
\* of an amount that leaves a remainder, in a room that holds an event
\* received with a split that does not name its payer
C27_Witness ==
    /\ ret.op = "addExpense" /\ ret.ok
    /\ ret.event[1].payer = "b"
    /\ ret.event[1].split = <<"b", "a", "c">>
    /\ remainder(ret.event[1]) > 0
    /\ \E k \in DOMAIN Stored(rooms["p1"], "trip") :
          LET e == Stored(rooms["p1"], "trip")[k]
          IN  e.by = <<>> /\ e.payer \notin Range(e.split)

----------------------------------------------------------------------------
(* C28: rooms that are read *)

QueryEvents ==
    {RawEvent("t1", "a", <<3>>, <<"a", "B">>, <<2>>),
     RawEvent("t3", "c", <<1>>, <<"a">>, <<1>>)}

\* a snapshot with events and two without a valid entry
QuerySnapshots ==
    {TripSnapshot,
     Snapshot("trip", TRUE, <<RawEvent("t1", "a", <<0>>, <<"a">>, <<1>>)>>),
     Snapshot("Trip", FALSE, <<>>)}

\* "new" is a room that nothing but queries ever names
QueryChannels == {"trip", "Trip", "new"}

NextQuery ==
    \/ \E event \in QueryEvents : AddEvent("p1", "trip", event)
    \/ \E channel \in Channels : ClearChannel("p1", channel, FALSE, "absent")
    \/ \E snapshot \in QuerySnapshots, replace \in BOOLEAN :
          ImportRoom("p1", snapshot, replace)
    \/ \E query \in Queries, channel \in QueryChannels : Query("p1", query, channel)

SpecQuery == Init /\ [][NextQuery]_vars

\* what a query returns for a room without events
NothingIn(query, channel) ==
    CASE query = "summary" ->
            [channel |-> channel, eventCount |-> 0, totalCents |-> 0,
             balances |-> <<>>, settlements |-> <<>>]
      [] query = "exportRoom" ->
            [object |-> TRUE, channel |-> channel, version |-> 1, isArray |-> TRUE,
             events |-> <<>>]
      [] OTHER -> <<>>

\* C28: list, balances, settlements, summary and exportRoom leave the Map of
\* rooms as it was: no room appears or disappears and no room's events or
\* dedup index change; nothing is sent or persisted.  For a room without
\* events each of them returns the same empty result whether the room was
\* never named, was cleared, or is there with zero events.
C28_QueriesReadOnly ==
    [][ret'.op \in Queries =>
          /\ rooms' = rooms
          /\ net' = net /\ store' = store /\ issued' = issued
          /\ Stored(rooms["p1"], ret'.channel) = <<>> =>
                ret'.result = <<NothingIn(ret'.op, ret'.channel)>>
          /\ ret'.op = "list" =>
                /\ Range(ret'.result[1]) = Range(Stored(rooms["p1"], ret'.channel))
                /\ Len(ret'.result[1]) = Len(Stored(rooms["p1"], ret'.channel))]_vars

\* summary was asked of the room Trip, which an import without entries
\* left there with zero events, while the room trip holds events, and of
\* the room new, which is in no Map
C28_Witness ==
    /\ ret.op = "summary"
    /\ ret.result = <<NothingIn("summary", ret.channel)>>
    /\ \/ /\ ret.channel = "Trip"
          /\ "Trip" \in DOMAIN rooms["p1"]
          /\ rooms["p1"]["Trip"].events = <<>>
       \/ /\ ret.channel = "new"
          /\ "new" \notin DOMAIN rooms["p1"]
          /\ "Trip" \in DOMAIN rooms["p1"]
    /\ Len(Stored(rooms["p1"], "trip")) = 2

----------------------------------------------------------------------------
(* C29: whom a settlement row pairs *)

\* the largest magnitude left in a list of debtors or of creditors
Largest(entries) ==
    IF entries = <<>> THEN 0
    ELSE CHOOSE n \in {entries[k].cents : k \in DOMAIN entries} :
            \A k \in DOMAIN entries : entries[k].cents <= n

\* C29 as stated: each row pairs the debtor with the largest remaining debt
\* with the creditor with the largest remaining credit at that step, for the
\* smaller of the two
C29_LargestFirst ==
    LET turns == turnsOf(balances(rooms["p1"], "trip"))
    IN  \A t \in DOMAIN turns :
            turns[t].amountCents > 0 =>
                /\ turns[t].debtors[turns[t].i].cents = Largest(turns[t].debtors)
                /\ turns[t].creditors[turns[t].j].cents = Largest(turns[t].creditors)
                /\ turns[t].amountCents =
                      Min(Largest(turns[t].debtors), Largest(turns[t].creditors))

\* in a list of a turn, the entries before the current one are settled, the
\* current one has something left and the ones after it are as they started
Current(entries, k, initial) ==
    /\ \A n \in 1..(k - 1) : entries[n].cents = 0
    /\ entries[k].cents > 0 /\ entries[k].cents <= initial[k].cents
    /\ \A n \in (k + 1)..Len(entries) : entries[n] = initial[n]

\* largest first
Descending(entries) ==
    \A n \in 1..(Len(entries) - 1) : entries[n].cents >= entries[n + 1].cents

\* C29: debtors and creditors are each put in descending order of what they
\* owe or are owed at the start; every turn of the loop takes the first
\* debtor and the first creditor of these orders that still have something
\* left, so a side stays in turn until it reaches zero even when what it
\* has left is less than what a later one has; the turn moves the smaller of
\* the two remaining magnitudes, and each turn emits one row
C29_FirstUnsettledInOrder ==
    LET bal == balances(rooms["p1"], "trip")
        turns == turnsOf(bal)
    IN  /\ Descending(debtorsOf(bal)) /\ Descending(creditorsOf(bal))
        /\ \A t \in DOMAIN turns :
              /\ Current(turns[t].debtors, turns[t].i, debtorsOf(bal))
              /\ Current(turns[t].creditors, turns[t].j, creditorsOf(bal))
              /\ turns[t].amountCents =
                    Min(turns[t].debtors[turns[t].i].cents,
                        turns[t].creditors[turns[t].j].cents)
        /\ settlementsOf(bal) =
              [t \in DOMAIN turns |->
                  [from |-> turns[t].debtors[turns[t].i].member,
                   to |-> turns[t].creditors[turns[t].j].member,
                   amountCents |-> turns[t].amountCents]]

\* a row is paid to a creditor who has less left than the next creditor
C29_Witness ==
    LET turns == turnsOf(balances(rooms["p1"], "trip"))
    IN  \E t \in DOMAIN turns :
            /\ turns[t].amountCents > 0
            /\ turns[t].j < Len(turns[t].creditors)
            /\ turns[t].creditors[turns[t].j].cents
                  < turns[t].creditors[turns[t].j + 1].cents

----------------------------------------------------------------------------
(* C30: the settlement loop ends *)

\* C30: every turn of the loop brings what the current debtor or the
\* current creditor has left to exactly zero and moves at least one of the
\* two indices forward, never back; the loop takes at most as many turns as
\* there are debtors and creditors, and when it stops one of the two lists
\* is used up
C30_LoopTerminates ==
    LET bal == balances(rooms["p1"], "trip")
        debtors == debtorsOf(bal)
        creditors == creditorsOf(bal)
        turns == turnsOf(bal)
    IN  /\ \A t \in DOMAIN turns :
              /\ \/ turns[t].debtors[turns[t].i].cents = turns[t].amountCents
                 \/ turns[t].creditors[turns[t].j].cents = turns[t].amountCents
              /\ turns[t].iNext >= turns[t].i /\ turns[t].jNext >= turns[t].j
              /\ turns[t].iNext + turns[t].jNext > turns[t].i + turns[t].j
              /\ t < Len(turns) =>
                    turns[t + 1].i = turns[t].iNext /\ turns[t + 1].j = turns[t].jNext
        /\ Len(turns) <= Len(debtors) + Len(creditors)
        /\ Len(turns) < MaxTurns
        /\ IF turns = <<>> THEN debtors = <<>> \/ creditors = <<>>
           ELSE \/ turns[Len(turns)].iNext > Len(debtors)
                \/ turns[Len(turns)].jNext > Len(creditors)

\* the loop ended after four turns over five members, one of which settled
\* a debtor and a creditor at once
C30_Witness ==
    LET bal == balances(rooms["p1"], "trip")
        turns == turnsOf(bal)
    IN  /\ Len(bal) = 5
        /\ Len(turns) = 4
        /\ turns[4].iNext = turns[4].i + 1 /\ turns[4].jNext = turns[4].j + 1
        /\ \E t \in 1..3 : turns[t].iNext = turns[t].i

----------------------------------------------------------------------------
(* C31: what the settlement rows do to each balance *)

\* what the rows pay to `member` less what they take from `member`
RECURSIVE Received(_, _, _)
Received(rows, i, member) ==
    IF i > Len(rows) THEN 0
    ELSE (IF rows[i].to = member THEN rows[i].amountCents ELSE 0)
         - (IF rows[i].from = member THEN rows[i].amountCents ELSE 0)
         + Received(rows, i + 1, member)

\* C31: for each member of the room the settlement rows that pay the member
\* less the rows the member pays come to the member's balance; a member
\* named as `from` has a negative balance and one named as `to` a positive
\* one, and a member outside the balance list is in no row
C31_SettlementsClearBalances ==
    LET bal == balances(rooms["p1"], "trip")
        rows == settlements(rooms["p1"], "trip")
        centsOf(member) ==
            LET at == {k \in DOMAIN bal : bal[k].member = member}
            IN  IF at = {} THEN 0 ELSE bal[CHOOSE k \in at : TRUE].cents
    IN  /\ \A k \in DOMAIN bal : Received(rows, 1, bal[k].member) = bal[k].cents
        /\ \A i \in DOMAIN rows :
              /\ centsOf(rows[i].from) < 0
              /\ centsOf(rows[i].to) > 0

\* two debtors and two creditors, one of whom is paid by both debtors
C31_Witness ==
    LET bal == balances(rooms["p1"], "trip")
        rows == settlements(rooms["p1"], "trip")
    IN  /\ Len(debtorsOf(bal)) = 2 /\ Len(creditorsOf(bal)) = 2
        /\ Len(rows) = 3
        /\ \E i, j \in DOMAIN rows :
              i # j /\ rows[i].to = rows[j].to /\ rows[i].from # rows[j].from

----------------------------------------------------------------------------
(* C32: two events with one txId *)

\* C32: when a valid event reaches a room that holds an event with its txId,
\* by addEvent, by an expense_add message or in a snapshot that is merged,
\* the room keeps the event it holds, unchanged, and stores nothing;
\* addEvent returns ok with duplicate true
C32_FirstWriterWins ==
    [][/\ \A channel \in Channels, e \in ValidEvents :
             (/\ ret'.op = "addEvent"
              /\ Trim(e.txId) \in Seen("p1", channel)
              /\ AddEvent("p1", channel, e)) =>
                rooms' = rooms /\ ret'.ok /\ ret'.duplicate
       /\ \A channel \in Channels, payload \in Payloads :
             (/\ ret'.op = "handleSidechannelMessage"
              /\ payload.message.object /\ payload.message.app = APP_KEY
              /\ payload.message.type = "expense_add"
              /\ Trim(payload.message.event.txId) \in Seen("p1", channel)
              /\ Receive("p1", channel, payload)) =>
                rooms' = rooms
       /\ (Called("importRoom") /\ ret'.ok /\ ~ret'.replace) =>
             LET before == Stored(rooms["p1"], ret'.channel)
                 after == Stored(rooms'["p1"], ret'.channel)
             IN  \A k \in DOMAIN before :
                    /\ before[k] \in Range(after)
                    /\ Count(after, before[k].txId) = 1]_vars

\* addEvent was given an event for t1 with another payer, amount and split
\* than the t1 the room holds, and reported a duplicate
C32_Witness ==
    /\ ret.op = "addEvent" /\ ret.ok /\ ret.duplicate
    /\ ret.event[1].txId = "t1"
    /\ \E k \in DOMAIN Stored(rooms["p1"], ret.channel) :
          LET held == Stored(rooms["p1"], ret.channel)[k]
          IN  /\ held.txId = "t1"
              /\ held.payer # ret.event[1].payer
              /\ held.amountCents # ret.event[1].amountCents
              /\ held.split # ret.event[1].split

----------------------------------------------------------------------------
(* C33: messages of other applications *)

\* a payload that is not the ledger's: its message is no object, is of
\* another app, or is neither an expense_add nor an expense_clear
Foreign(payload) ==
    \/ ~payload.message.object
    \/ payload.message.app # "expense_split_v1"
    \/ payload.message.type \notin {"expense_add", "expense_clear"}

\* C33: handleSidechannelMessage returns false for a payload that is not the
\* ledger's and leaves every room, and everything else, as it was
C33_ForeignTrafficIgnored ==
    [][\A channel \in Channels, payload \in Payloads :
          (/\ ret'.op = "handleSidechannelMessage"
           /\ Foreign(payload)
           /\ Receive("p1", channel, payload)) =>
              /\ ~ret'.ok
              /\ rooms' = rooms
              /\ net' = net /\ store' = store /\ issued' = issued]_vars

\* the handler returned false on a room that holds events
C33_Witness ==
    /\ ret.op = "handleSidechannelMessage"
    /\ ~ret.ok
    /\ Stored(rooms["p1"], ret.channel) # <<>>
    /\ \E payload \in Payloads :
          Foreign(payload) /\ payload.message.type = "expense_clear"

----------------------------------------------------------------------------
(* C34: frames written before authentication *)

\* the client the frame is written to had not authenticated when the step
\* began, or connected in the step
Unauthenticated(f) ==
    /\ f.to \in DOMAIN bridge'.clients
    /\ f.to \in DOMAIN bridge.clients => ~bridge.clients[f.to].authed

\* C34: while requireAuth is set, every frame the bridge writes to a client
\* that has not authenticated is a hello, an error or an auth_ok frame,
\* whatever arrives on the sidechannel and whatever the clients send; and a
\* client that is still unauthenticated after the step was written nothing
\* but hello and error frames.
C34_HandshakeFramesOnly ==
    [][bridge.requireAuth =>
          \A i \in DOMAIN bridge'.frames :
              /\ Unauthenticated(bridge'.frames[i]) =>
                    bridge'.frames[i].type \in {"hello", "error", "auth_ok"}
              /\ (/\ bridge'.frames[i].to \in DOMAIN bridge'.clients
                  /\ ~bridge'.clients[bridge'.frames[i].to].authed) =>
                    bridge'.frames[i].type \in {"hello", "error"}]_vars

\* traffic arrived while c1 was connected and unauthenticated: the one frame
\* went to c2, which had authenticated
C34_Witness ==
    /\ bridge.requireAuth
    /\ bridge.handled = "sidechannel_message"
    /\ "c1" \in DOMAIN bridge.clients /\ ~bridge.clients["c1"].authed
    /\ "c2" \in DOMAIN bridge.clients /\ bridge.clients["c2"].authed
    /\ bridge.frames = <<Frame("c2", <<>>, "sidechannel_message", "", "other")>>

----------------------------------------------------------------------------
(* C35: authentication of a connection *)

\* C35: while a client stays connected, its authed flag and its ready flag,
\* once true, stay true: no message, sidechannel traffic, CLI run or other
\* client's step resets them; only the close of the socket ends them.
C35_AuthMonotonic ==
    [][\A c \in FanoutClients :
          (c \in DOMAIN bridge.clients /\ c \in DOMAIN bridge'.clients) =>
              /\ bridge.clients[c].authed => bridge'.clients[c].authed
              /\ bridge.clients[c].ready => bridge'.clients[c].ready]_vars

\* an authenticated client sent an auth message with a wrong token, was
\* answered 'Unauthorized.' and is still authenticated
C35_Witness ==
    /\ bridge.requireAuth
    /\ "c1" \in DOMAIN bridge.clients
    /\ bridge.clients["c1"].authed /\ bridge.clients["c1"].ready
    /\ bridge.handled = "auth"
    /\ bridge.frames = <<Frame("c1", <<>>, "error", "Unauthorized.", "")>>

----------------------------------------------------------------------------
(* C36: the CLI queue *)

\* the runs of the queue that have started and not settled
Running == {i \in DOMAIN bridge.cliQueue : bridge.cliQueue[i].running}

\* C36: CLI commands run one at a time in the order received, whichever
\* client sent them: the only run that is ever started and unsettled is the
\* oldest of the queue, a new command is chained behind those waiting, a
\* command that throws is answered with a cli_result whose ok is false
\* (error set) and leaves the runs behind it in the queue, and the oldest
\* waiting run can always start once nothing is running.
C36_CliSerial ==
    /\ [](Running \subseteq {1})
    /\ [][/\ Len(bridge'.cliQueue) > Len(bridge.cliQueue) =>
               /\ SubSeq(bridge'.cliQueue, 1, Len(bridge.cliQueue)) = bridge.cliQueue
               /\ ~bridge'.cliQueue[Len(bridge'.cliQueue)].running
          /\ Len(bridge'.cliQueue) < Len(bridge.cliQueue) =>
               /\ bridge'.cliQueue = Tail(bridge.cliQueue)
               /\ bridge'.frames[1].to = bridge.cliQueue[1].client
               /\ bridge'.frames[1].id = bridge.cliQueue[1].id
               /\ bridge'.frames[1].type = "cli_result"
               /\ FinishCli(1, "throws") <=> bridge'.frames[1].error # ""]_vars
    /\ []((bridge.cliQueue # <<>> /\ Running = {}) => ENABLED StartCli(1))

\* the command of c1 threw and was answered with ok false; the command of
\* c2, received after it, is now running
C36_Witness ==
    /\ bridge.frames = <<Frame("c1", <<7>>, "cli_result", "thrown", "")>>
    /\ Len(bridge.cliQueue) = 1
    /\ bridge.cliQueue[1].client = "c2"
    /\ bridge.cliQueue[1].running

----------------------------------------------------------------------------
(* C37: replies and request ids *)

\* the request types whose reply is written from a promise callback
AsyncTypes == {"cli", "join", "leave", "expense_persist", "expense_restore"}

\* the id a reply to `message` is to carry: the request's id when it is an
\* integer, none otherwise
Echoed(message) == IF Len(message.id) = 1 THEN message.id ELSE <<>>

C37_WitnessId ==
    /\ bridge.handled = "expense_add"
    /\ bridge.frames = <<Frame("c1", <<7>>, "expense_added", "", "")>>

----------------------------------------------------------------------------
(* C38: subscriptions *)

\* the step wrote client c a sidechannel_message frame for the channel
Receives(c, channel) ==
    \E i \in DOMAIN bridge'.frames :
        /\ bridge'.frames[i] = Frame(c, <<>>, "sidechannel_message", "", channel)
        /\ \A j \in DOMAIN bridge'.frames : bridge'.frames[j].to = c => j = i

\* no word filter stands between the client and the channel
Unfiltered(c, channel) ==
    \/ bridge.clients[c].filter = <<>>
    \/ bridge.filterChannels # <<>> /\ channel \notin bridge.filterChannels[1]

\* C38: when a message arrives on a channel, a ready client with a
\* non-empty subscription set is written a sidechannel_message frame only if
\* the channel is in the set; a ready client whose set is empty, or was never
\* made, is written one for any channel (as is a subscriber of the channel),
\* unless its word filter drops the message. A client that is not ready is
\* written nothing.
C38_SubscriptionScope ==
    [][\A channel \in TrafficChannels, messageText \in TrafficTexts :
          (/\ bridge'.handled = "sidechannel_message"
           /\ SidechannelTraffic(channel, messageText)) =>
              \A c \in DOMAIN bridge.clients :
                  LET set == subscribed(bridge.clients[c].channels)
                  IN  /\ ~bridge.clients[c].ready => ~Receives(c, channel)
                      /\ (set # {} /\ channel \notin set) => ~Receives(c, channel)
                      /\ (/\ bridge.clients[c].ready
                          /\ set = {} \/ channel \in set
                          /\ Unfiltered(c, channel)) => Receives(c, channel)]_vars

\* the subscription set of c1 was made and holds no channel (its last
\* channel was unsubscribed, or nothing was ever added), and c1 was written
\* a frame for a channel it never subscribed to
C38_Witness ==
    /\ bridge.handled = "sidechannel_message"
    /\ "c1" \in DOMAIN bridge.clients
    /\ bridge.clients["c1"].channels = <<{}>>
    /\ \E i \in DOMAIN bridge.frames :
          bridge.frames[i] = Frame("c1", <<>>, "sidechannel_message", "", "other")

----------------------------------------------------------------------------
(* C39: requests of the UI *)

\* the ids request() has handed out
Requested == 1..(ui.nextId - 1)

\* C39: a request is settled at most once and is in the pending map, with
\* its timer armed, exactly until it is settled; each call of request()
\* takes an id no earlier call had; a frame whose id is not pending settles
\* nothing; and every request is settled in the end, by a frame carrying
\* its id, by the failure of the send or by its timer.
C39_SettledOnce ==
    /\ [](\A id \in Requested :
            /\ Len(ui.settled[id]) <= 1
            /\ id \in ui.pending <=> ui.settled[id] = <<>>
            /\ id \in ui.pending => id \in ui.timers)
    /\ [](ui.pending \subseteq Requested /\ Len(ui.settled) = ui.nextId - 1)
    /\ [][/\ ui'.nextId >= ui.nextId
          /\ ui'.nextId > ui.nextId =>
                /\ ui.nextId \notin ui.pending
                /\ ui'.pending \ ui.pending \subseteq {ui.nextId}
                /\ SubSeq(ui'.settled, 1, Len(ui.settled)) = ui.settled
          /\ \A s \in DOMAIN ui.sockets, frame \in UiFrames :
                (/\ ui'.nextId = ui.nextId /\ ui'.sockets[s].readyState = "OPEN"
                 /\ SocketMessage(s, frame)
                 /\ ~(Len(frame.id) = 1 /\ frame.id[1] \in ui.pending)) =>
                    ui'.settled = ui.settled /\ ui'.pending = ui.pending]_vars
    /\ \A id \in 1..MaxRequests :
          (id \in Requested) ~> (id \in Requested /\ Len(ui.settled[id]) = 1)

\* request 1 was settled by its timer and request 2 by the frame carrying
\* its id; nothing is pending
C39_Witness ==
    /\ ui.nextId = 3
    /\ ui.settled = <<<<"timeout">>, <<"resolved">>>>
    /\ ui.pending = {}

----------------------------------------------------------------------------
(* C40: the authed flag of the UI *)

\* C40: whenever state.authed is true, state.ws is a socket that is open and
\* on which an auth_ok frame was received.
C40_AuthedOnOpenSocket ==
    ui.authed =>
        /\ ui.ws # 0
        /\ ui.sockets[ui.ws].readyState = "OPEN"
        /\ ui.sockets[ui.ws].authOk

\* the flag is true while state.ws is a new socket that is still connecting:
\* Connect was clicked again after the first socket had authenticated
C40_StaleFlag ==
    /\ ui.authed
    /\ ui.ws = 2
    /\ ui.sockets[2].readyState = "CONNECTING"
    /\ ui.sockets[1].authOk

====
